---- MODULE Spec2Model ----
(***************************************************************************)
(* The per-guild music player of src/music.py (class GuildPlayer) as a     *)
(* state machine: the queue, the history with its cursor, the playback     *)
(* loop task (one step per stretch of code between two awaits), the idle   *)
(* countdown task, the voice transport and the commands that act on them.  *)
(*                                                                         *)
(* A Track is identified by its seq (1, 2, ...); 0 stands for None.        *)
(* Times are ages in seconds (time.monotonic() minus the stamp), saturated *)
(* at IDLE_SECONDS; NoStamp stands for a stamp that is None.               *)
(***************************************************************************)
EXTENDS Integers, Sequences, FiniteSets, TLC

VARIABLES
    queue,               \* self.queue: sequence of track seqs, head first
    current,             \* self.current: a seq, or 0
    history,             \* self._history
    history_index,       \* self._history_index (0-based, -1 when empty)
    repeat_mode,         \* self.repeat_mode
    navigating_history,  \* self._navigating_history
    seq_counter,         \* self._seq_counter
    stopped,             \* self._stopped
    loop_task,           \* self.loop_task: a loop slot, or 0
    loopPc,              \* position of each playback-loop task
    voice,               \* self.voice: "none", "conn" (connected client), "dead" (client, not connected)
    play,                \* the voice client's player: "idle", "playing", "paused"
    humans,              \* a non-bot member is in the voice channel
    afterPending,        \* after_play callbacks scheduled on the event loop, not yet run
    next_event,          \* self.next_event is set
    queue_event,         \* self.queue_event is set
    idle_task,           \* self._idle_task: an idle slot, or 0
    idlePc,              \* position of each idle-countdown task
    idleAge,             \* seconds each idle-countdown task has slept
    idle_started_mono,   \* age of self._idle_started_mono, or NoStamp
    calls,               \* enqueue calls awaiting the resolver, each with the result it will get
    sinceActivity,       \* seconds since playback last started or the queue last became non-empty
    panel_channel_id,    \* self.panel_channel_id: a text channel, or 0
    panel_message_id,    \* self.panel_message_id: a message id, or 0
    panelMsgs,           \* ids of the messages in the panel channel that carry the panel marker
    lastMsgId,           \* the id of the newest message the bot has sent to the panel channel
    panel_lock,          \* the panel call that holds self._panel_lock, or 0
    panelPc,             \* position of each panel call
    panelMsg,            \* the message id each panel call works on (fetch argument, msg, old), or 0
    panelCh,             \* the channel each panel call resolved (its local ch), or 0
    players,             \* bot._music_players: for each guild id its GuildPlayer instance, or 0
    playerCount,         \* the number of GuildPlayer instances constructed so far
    returned,            \* the guild and the instance of the last get_player call
    query,               \* the query handed to create_tracks_from_query
    resolving,           \* the for loop of the resolver: the next entry and the tracks so far
    resolved,            \* what create_tracks_from_query did with it, or NotResolved
    progressOf,          \* what _progress_bar reads: the current track's duration, the start
                         \* stamp against the clock
    progress,            \* what _progress_bar returned for it, or NotRendered
    last_panel_bump,     \* seconds since self._last_panel_bump_monotonic
    bumpNow,             \* for each panel call, seconds since it read now_mono
    sinceRepost,         \* seconds since a non-forced bump last sent a panel, or NoStamp
    ui_task,             \* self._ui_task: "none", or the task it refers to: "run", "done"
    uiAlive              \* _ui_updater tasks created, not finished and not cancelled

vars == <<queue, current, history, history_index, repeat_mode, navigating_history,
          seq_counter, stopped, loop_task, loopPc, voice, play, humans, afterPending,
          next_event, queue_event, idle_task, idlePc, idleAge, idle_started_mono,
          calls, sinceActivity, panel_channel_id, panel_message_id, panelMsgs, lastMsgId,
          panel_lock, panelPc, panelMsg, panelCh, players, playerCount, returned, query, resolving,
          resolved, progressOf, progress, last_panel_bump, bumpNow, sinceRepost, ui_task,
          uiAlive>>

----------------------------------------------------------------------------
(* Bounds of the model *)

MaxSeq == 2
MaxQueue == 2
MaxCalls == 2
MaxBatch == 2
EnqMaxSeq == 2
HistMaxSeq == 6
HistRoom == 1
IdleMaxSeq == 3
NLoopSlots == 2
NIdleSlots == 2
MaxUiTasks == 2
MaxAfter == 1
TickSeconds == 150
NavMaxSeq == 3
NavQueue == 3
NGuilds == 4
MaxPlayers == 4
NPanelCalls == 2
NChannels == 2
MaxMsgs == 3
MaxEntries == 121
MaxSkipped == 2
MaxFailAt == 2
FifoMaxSeq == 4
MaxDuration == 200
MaxElapsed == 201
MaxClockBack == 1
BumpTickSeconds == 15
SoftMaxMsgs == 5

(* Program constants *)

HISTORY_MAX == 5
IDLE_SECONDS == 300
DELETE_PANEL_ON_IDLE == FALSE
PLAYLIST_MAX == 50
SPOTIFY_MAX == 100
ALBUM_PAGE_LIMIT == 50
PLAYLIST_PAGE_LIMIT == 100
BAR_WIDTH == 18
PANEL_BUMP_SECONDS == 45

NoStamp == -1
RepeatModes == {"off", "one", "all"}
LoopSlots == 1..NLoopSlots
IdleSlots == 1..NIdleSlots
PanelCalls == 1..NPanelCalls
Channels == 1..NChannels
Guilds == 1..NGuilds

Max(a, b) == IF a >= b THEN a ELSE b
Min(a, b) == IF a <= b THEN a ELSE b

----------------------------------------------------------------------------
(* Tasks *)

\* asyncio.Task.done() of a playback-loop task
LoopDone(pc) == pc \in {"free", "done", "crashed"}

LoopAlive(t) == ~LoopDone(loopPc[t])

\* a slot for a new task object
FreeLoopSlot == CHOOSE t \in LoopSlots : LoopDone(loopPc[t]) /\ \A u \in LoopSlots : LoopDone(loopPc[u]) => t <= u

HasFreeLoopSlot == \E t \in LoopSlots : LoopDone(loopPc[t])

FreeIdleSlot == CHOOSE i \in IdleSlots : idlePc[i] = "free" /\ \A j \in IdleSlots : idlePc[j] = "free" => i <= j

HasFreeIdleSlot == \E i \in IdleSlots : idlePc[i] = "free"

----------------------------------------------------------------------------
InitPlayer ==
    /\ queue = <<>>
    /\ current = 0
    /\ history = <<>>
    /\ history_index = -1
    /\ repeat_mode = "off"
    /\ navigating_history = FALSE
    /\ seq_counter = 0
    /\ stopped = FALSE
    /\ loop_task = 0
    /\ loopPc = [t \in LoopSlots |-> "free"]
    /\ voice = "none"
    /\ play = "idle"
    /\ humans = FALSE
    /\ afterPending = 0
    /\ next_event = FALSE
    /\ queue_event = FALSE
    /\ idle_task = 0
    /\ idlePc = [i \in IdleSlots |-> "free"]
    /\ idleAge = [i \in IdleSlots |-> 0]
    /\ idle_started_mono = NoStamp
    /\ calls = <<>>
    /\ sinceActivity = IDLE_SECONDS
    /\ panel_channel_id = 0
    /\ panel_message_id = 0
    /\ panelMsgs = {}
    /\ lastMsgId = 0
    /\ panel_lock = 0
    /\ panelPc = [c \in PanelCalls |-> "free"]
    /\ panelMsg = [c \in PanelCalls |-> 0]
    /\ panelCh = [c \in PanelCalls |-> 0]
    /\ last_panel_bump = PANEL_BUMP_SECONDS
    /\ bumpNow = [c \in PanelCalls |-> 0]
    /\ sinceRepost = NoStamp
    /\ ui_task = "none"
    /\ uiAlive = 0

\* GLOBAL_MUSIC_PLAYERS = {} (line 56)
InitRegistry ==
    /\ players = [g \in Guilds |-> 0]
    /\ playerCount = 0
    /\ returned = [guild |-> 0, player |-> 0]

\* the classes of query create_tracks_from_query tells apart
QueryClasses == {"sp_track", "sp_album", "sp_playlist", "yt_playlist", "yt_link", "text"}

\* A query and what the services answer for it: its class, whether the Spotify credentials
\* are set, whether yt-dlp returns playlist info, the number of entries of the catalog or
\* playlist, how many leading entries are unusable before any lookup (a Spotify item that has
\* no track or is local, a YouTube entry without id and url), and the entry whose YouTube
\* extraction raises (0 = none)
Queries ==
    [class : QueryClasses, creds : BOOLEAN, info : BOOLEAN, entries : 0..MaxEntries,
     skipped : 0..MaxSkipped, failAt : 0..MaxFailAt]

NotResolved == [fail |-> FALSE, tracks |-> -1]
NotResolving == [i |-> 0, count |-> 0]

InitResolver ==
    /\ query = [class |-> "text", creds |-> TRUE, info |-> TRUE, entries |-> 1,
                skipped |-> 0, failAt |-> 0]
    /\ resolving = NotResolving
    /\ resolved = NotResolved

\* What a rendering of the progress bar depends on: whether there is a current track, its
\* duration in seconds (0 = None), whether _start_time_utc is set, and the whole seconds
\* from it to now (negative when the wall clock was set back in between)
ProgressInputs ==
    [current : BOOLEAN, duration : 0..MaxDuration, started : BOOLEAN,
     elapsed : (0 - MaxClockBack)..MaxElapsed]

NotRendered == [bar |-> FALSE, num |-> -1, den |-> -1, filled |-> -1, text |-> "?"]

InitProgress ==
    /\ progressOf = [current |-> FALSE, duration |-> 0, started |-> FALSE, elapsed |-> 0]
    /\ progress = NotRendered

Init == InitPlayer /\ InitRegistry /\ InitResolver /\ InitProgress

----------------------------------------------------------------------------
(* Helpers of GuildPlayer *)

playerVars == <<queue, current, history, history_index, repeat_mode, navigating_history,
                seq_counter, stopped>>
idleVars == <<idle_task, idlePc, idleAge, idle_started_mono>>
voiceVars == <<voice, play, humans, afterPending>>
ghostVars == <<sinceActivity>>
registryVars == <<players, playerCount, returned>>
resolverVars == <<query, resolving, resolved>>
progressVars == <<progressOf, progress>>
bumpVars == <<last_panel_bump, bumpNow, sinceRepost>>
uiVars == <<ui_task, uiAlive>>
sideVars == <<registryVars, resolverVars, progressVars, bumpVars, uiVars>>
panelVars == <<panel_channel_id, panel_message_id, panelMsgs, lastMsgId, panel_lock, panelPc,
               panelMsg, panelCh>>

\* _has_humans()
HasHumans == voice = "conn" /\ humans

\* position (1-based) of the first history entry with this seq, or 0
ExistingIdx(h, seq) ==
    IF \E i \in 1..Len(h) : h[i] = seq
    THEN CHOOSE i \in 1..Len(h) : h[i] = seq /\ \A j \in 1..(i - 1) : h[j] # seq
    ELSE 0

\* _update_history_for_track that never looks for an existing entry
HistAfterRecordAlwaysAppends(h, idx, track) ==
    LET h2 == Append(h, track)
        overflow == Len(h2) - HISTORY_MAX
        h3 == SubSeq(h2, overflow + 1, Len(h2))
    IN  IF track = 0 THEN [h |-> h, idx |-> idx]
        ELSE IF Len(h2) > HISTORY_MAX THEN [h |-> h3, idx |-> Max(0, Len(h3) - 1)]
        ELSE [h |-> h2, idx |-> Len(h2) - 1]

\* _update_history_for_track without the eviction of the oldest entries
HistAfterRecordNoTrim(h, idx, track) ==
    LET e == ExistingIdx(h, track)
        h2 == Append(h, track)
    IN  IF track = 0 THEN [h |-> h, idx |-> idx]
        ELSE IF e # 0 THEN [h |-> h, idx |-> e - 1]
        ELSE [h |-> h2, idx |-> Len(h2) - 1]

\* _update_history_for_track(track): the history and the cursor after it
HistAfterRecord(h, idx, track) ==
    LET e == ExistingIdx(h, track)
        h2 == Append(h, track)
        overflow == Len(h2) - HISTORY_MAX
        h3 == SubSeq(h2, overflow + 1, Len(h2))
    IN  IF track = 0 THEN [h |-> h, idx |-> idx]
        ELSE IF e # 0 THEN [h |-> h, idx |-> e - 1]
        ELSE IF Len(h2) > HISTORY_MAX THEN [h |-> h3, idx |-> Max(0, Len(h3) - 1)]
        ELSE [h |-> h2, idx |-> Len(h2) - 1]

\* _cancel_idle_timer(): a task that has not run yet ends without running its body;
\* a suspended one gets CancelledError at its await (the sleep: "cancelled"; inside
\* _safe_disconnect: "aborted") and still has its finally clause to run
CancelIdleTimer ==
    /\ idlePc' = IF idle_task = 0 THEN idlePc
                 ELSE [idlePc EXCEPT ![idle_task] =
                          IF @ = "new" THEN "free"
                          ELSE IF @ = "sleep" THEN "cancelled"
                          ELSE IF @ \in {"disc", "panel"} THEN "aborted"
                          ELSE @]
    /\ idle_task' = 0
    /\ idle_started_mono' = NoStamp
    /\ idleAge' = IF idle_task = 0 THEN idleAge ELSE [idleAge EXCEPT ![idle_task] = 0]

\* _start_idle_timer_if_needed without its check for humans
StartIdleTimerIgnoringHumans ==
    IF voice # "conn" THEN UNCHANGED idleVars
    ELSE IF play # "idle" THEN CancelIdleTimer
    ELSE IF queue # <<>> THEN CancelIdleTimer
    ELSE IF idle_task # 0 /\ idlePc[idle_task] # "free" THEN UNCHANGED idleVars
    ELSE /\ HasFreeIdleSlot
         /\ idle_task' = FreeIdleSlot
         /\ idlePc' = [idlePc EXCEPT ![FreeIdleSlot] = "new"]
         /\ idleAge' = [idleAge EXCEPT ![FreeIdleSlot] = 0]
         /\ UNCHANGED idle_started_mono

\* _start_idle_timer_if_needed(), all of it but the await of _safe_disconnect
\* (the caller goes there when the player is connected with no human)
StartIdleTimerIfNeeded ==
    IF voice # "conn" THEN UNCHANGED idleVars
    ELSE IF ~humans THEN CancelIdleTimer
    ELSE IF play # "idle" THEN CancelIdleTimer
    ELSE IF queue # <<>> THEN CancelIdleTimer
    ELSE IF idle_task # 0 /\ idlePc[idle_task] # "free" THEN UNCHANGED idleVars
    ELSE /\ HasFreeIdleSlot
         /\ idle_task' = FreeIdleSlot
         /\ idlePc' = [idlePc EXCEPT ![FreeIdleSlot] = "new"]
         /\ idleAge' = [idleAge EXCEPT ![FreeIdleSlot] = 0]
         /\ UNCHANGED idle_started_mono

\* lines 1071-1073 without the cancel(): the reference is dropped, the task goes on
DropUiTask ==
    /\ ui_task' = "none"
    /\ UNCHANGED uiAlive

\* lines 1071-1073: cancel() the refresher unless it is done, and drop the reference
CancelUiTask ==
    /\ ui_task' = "none"
    /\ uiAlive' = IF ui_task = "run" THEN uiAlive - 1 ELSE uiAlive

\* lines 1062-1064: cancel() the refresher unless it is done, and create a new one
RestartUiTask ==
    LET left == IF ui_task = "run" THEN uiAlive - 1 ELSE uiAlive
    IN  /\ left < MaxUiTasks
        /\ ui_task' = "run"
        /\ uiAlive' = left + 1

\* voice.disconnect(force=True) is called: the client stops its player (whose after
\* callback then fires) and is no longer connected; self.voice still refers to it
VoiceDisconnect ==
    /\ play # "idle" => afterPending < MaxAfter
    /\ voice' = IF voice = "conn" THEN "dead" ELSE voice
    /\ play' = "idle"
    /\ afterPending' = IF play # "idle" THEN afterPending + 1 ELSE afterPending
    /\ humans' = FALSE

\* voice.stop() of a player whose after callback is never called
VoiceStopSilent ==
    /\ play' = "idle"
    /\ UNCHANGED <<voice, humans, afterPending>>

\* voice.stop(): stops the player if there is one; its after callback then fires
VoiceStop ==
    /\ play # "idle" => afterPending < MaxAfter
    /\ play' = "idle"
    /\ afterPending' = IF play # "idle" THEN afterPending + 1 ELSE afterPending
    /\ UNCHANGED <<voice, humans>>

\* _safe_disconnect without self.queue.clear()
SafeDisconnectKeepQueue ==
    /\ voice' = "none"
    /\ current' = 0
    /\ queue' = queue
    /\ idle_started_mono' = NoStamp

\* the assignments of _safe_disconnect after its await of voice.disconnect
SafeDisconnectClear ==
    /\ voice' = "none"
    /\ current' = 0
    /\ queue' = <<>>
    /\ idle_started_mono' = NoStamp

----------------------------------------------------------------------------
(* player_loop: one action per stretch of code between two suspension points. *)
(* The return to the head of the while loop ("top"), and the wait on a         *)
(* completion gate that is already set, are kept as positions of their own:    *)
(* the runs of the task are those of the code, with more interleavings.        *)

SetPc(t, pc) == loopPc' = [loopPc EXCEPT ![t] = pc]

\* the loop's idle tracking finds the idle time used up (line 1008)
LoopIdleExpired ==
    /\ voice = "conn" /\ play = "idle" /\ queue = <<>>
    /\ idle_started_mono # NoStamp
    /\ idle_started_mono >= IDLE_SECONDS

\* self._idle_started_mono after the idle tracking of lines 998-1027, no timeout
StampAtTop ==
    IF voice = "conn" /\ play = "idle" /\ queue = <<>>
    THEN (IF idle_started_mono = NoStamp THEN 0 ELSE idle_started_mono)
    ELSE NoStamp

\* the task starts running: self._stopped = False
LoopStart(t) ==
    /\ loopPc[t] = "start"
    /\ stopped' = FALSE
    /\ SetPc(t, "top")
    /\ UNCHANGED <<queue, current, history, history_index, repeat_mode, navigating_history,
                   seq_counter, loop_task, voiceVars, next_event, queue_event, idleVars,
                   calls, ghostVars, panelVars, sideVars>>

\* while not self._stopped: the condition is false and the coroutine returns
LoopExit(t) ==
    /\ loopPc[t] = "top"
    /\ stopped
    /\ SetPc(t, "done")
    /\ UNCHANGED <<playerVars, loop_task, voiceVars, next_event, queue_event, idleVars,
                   calls, ghostVars, panelVars, sideVars>>

\* connected with no human: enter _safe_disconnect and await voice.disconnect
LoopAlone(t) ==
    /\ loopPc[t] = "top"
    /\ ~stopped
    /\ voice = "conn" /\ ~HasHumans
    /\ VoiceDisconnect
    /\ SetPc(t, "alone_disc")
    /\ UNCHANGED <<playerVars, loop_task, next_event, queue_event, idleVars, calls, ghostVars, panelVars, sideVars>>

\* _safe_disconnect resumes after voice.disconnect and awaits the panel update
LoopSafeDisconnect(t) ==
    /\ loopPc[t] \in {"alone_disc", "end_disc"}
    /\ SafeDisconnectClear
    /\ SetPc(t, IF loopPc[t] = "alone_disc" THEN "alone_panel" ELSE "end_panel")
    /\ UNCHANGED <<history, history_index, repeat_mode, navigating_history, seq_counter,
                   stopped, loop_task, play, humans, afterPending, next_event, queue_event,
                   idle_task, idlePc, idleAge, calls, sinceActivity, panelVars, sideVars>>

\* the loop's own idle timeout: await voice.disconnect
LoopIdleTimeout(t) ==
    /\ loopPc[t] = "top"
    /\ ~stopped
    /\ ~(voice = "conn" /\ ~HasHumans)
    /\ LoopIdleExpired
    /\ VoiceDisconnect
    /\ SetPc(t, "idle_disc")
    /\ UNCHANGED <<playerVars, loop_task, next_event, queue_event, idleVars, calls, ghostVars, panelVars, sideVars>>

\* lines 1018-1024: after the disconnect of the idle timeout
LoopIdleDisconnected(t) ==
    /\ loopPc[t] = "idle_disc"
    /\ voice' = "none"
    /\ current' = 0
    /\ idle_started_mono' = NoStamp
    /\ SetPc(t, "idle_panel")
    /\ UNCHANGED <<queue, history, history_index, repeat_mode, navigating_history,
                   seq_counter, stopped, loop_task, play, humans, afterPending, next_event,
                   queue_event, idle_task, idlePc, idleAge, calls, sinceActivity, panelVars, sideVars>>

\* a panel update that is followed by `continue` returns, or raises out of the loop
LoopPanelDone(t) ==
    /\ loopPc[t] \in {"alone_panel", "idle_panel", "stopped_panel", "next_panel", "final_panel"}
    /\ \E raised \in BOOLEAN : SetPc(t, IF raised THEN "crashed" ELSE "top")
    /\ UNCHANGED <<playerVars, loop_task, voiceVars, next_event, queue_event, idleVars,
                   calls, ghostVars, panelVars, sideVars>>

\* the queue is empty: clear the queue event and wait for it, 30 seconds at most
LoopQueueWait(t) ==
    /\ loopPc[t] = "top"
    /\ ~stopped
    /\ ~(voice = "conn" /\ ~HasHumans)
    /\ ~LoopIdleExpired
    /\ queue = <<>>
    /\ idle_started_mono' = StampAtTop
    /\ queue_event' = FALSE
    /\ SetPc(t, "queue_wait")
    /\ UNCHANGED <<playerVars, loop_task, voiceVars, next_event, idle_task, idlePc, idleAge,
                   calls, ghostVars, panelVars, sideVars>>

\* asyncio.TimeoutError of the wait: continue
LoopQueueTimeout(t) ==
    /\ loopPc[t] = "queue_wait"
    /\ ~queue_event
    /\ SetPc(t, "top")
    /\ UNCHANGED <<playerVars, loop_task, voiceVars, next_event, queue_event, idleVars,
                   calls, ghostVars, panelVars, sideVars>>

\* the queue event was set: the wait is over and the task is scheduled to resume
LoopQueueWake(t) ==
    /\ loopPc[t] = "queue_wait"
    /\ queue_event
    /\ SetPc(t, "woken")
    /\ UNCHANGED <<playerVars, loop_task, voiceVars, next_event, queue_event, idleVars,
                   calls, ghostVars, panelVars, sideVars>>

\* the loop is about to run self.current = self.queue.popleft() (line 1037)
AtDequeue(t) ==
    \/ /\ loopPc[t] = "top"
       /\ ~stopped
       /\ ~(voice = "conn" /\ ~HasHumans)
       /\ ~LoopIdleExpired
       /\ queue # <<>>
    \/ loopPc[t] = "woken"

\* popleft() of an empty deque raises IndexError, which ends the task
LoopDequeueEmpty(t) ==
    /\ AtDequeue(t)
    /\ queue = <<>>
    /\ SetPc(t, "crashed")
    /\ UNCHANGED <<playerVars, loop_task, voiceVars, next_event, queue_event, idleVars,
                   calls, ghostVars, panelVars, sideVars>>

\* the head is popped with no connection: it is dropped (lines 1037-1040)
LoopDiscard(t) ==
    /\ AtDequeue(t)
    /\ queue # <<>>
    /\ voice # "conn"
    /\ queue' = Tail(queue)
    /\ current' = 0
    /\ idle_started_mono' = IF loopPc[t] = "top" THEN NoStamp ELSE idle_started_mono
    /\ SetPc(t, "top")
    /\ UNCHANGED <<history, history_index, repeat_mode, navigating_history, seq_counter,
                   stopped, loop_task, voiceVars, next_event, queue_event, idle_task,
                   idlePc, idleAge, calls, ghostVars, panelVars, sideVars>>

\* lines 1037-1059: pop the head, record it, clear the completion gate, _on_track_start,
\* voice.play (which raises when the client is already playing, or when the source
\* cannot be made), and await the panel update
LoopPlay(t) ==
    /\ AtDequeue(t)
    /\ queue # <<>>
    /\ voice = "conn"
    /\ \E ok \in BOOLEAN :
         LET track == Head(queue)
             rec == HistAfterRecord(history, history_index, track)
             started == ok /\ play # "playing"
         IN  /\ queue' = Tail(queue)
             /\ current' = track
             /\ history' = rec.h
             /\ history_index' = rec.idx
             /\ CancelIdleTimer
             /\ play' = IF started THEN "playing" ELSE play
             /\ next_event' = ~started
             /\ sinceActivity' = IF started THEN 0 ELSE sinceActivity
             /\ SetPc(t, IF started THEN "start_panel" ELSE "wait_next")
    /\ UNCHANGED <<repeat_mode, navigating_history, seq_counter, stopped, loop_task, voice,
                   humans, afterPending, queue_event, calls, panelVars, sideVars>>

\* lines 1059-1067: the panel update and the forced bump return and the UI refresher is
\* started, or one of them raises and the handler sets the completion gate
LoopStartPanel(t) ==
    /\ loopPc[t] = "start_panel"
    /\ \E raised \in BOOLEAN :
         /\ next_event' = (raised \/ next_event)
         /\ IF raised THEN UNCHANGED uiVars ELSE RestartUiTask
    /\ SetPc(t, "wait_next")
    /\ UNCHANGED <<playerVars, loop_task, voiceVars, queue_event, idleVars, calls, ghostVars,
                   panelVars, registryVars, resolverVars, progressVars, bumpVars>>

\* the post-track step with a repeat-all refill that does not look at the queue
PostTrackRefillAlways(t, q, cur) ==
    LET q1 == IF repeat_mode = "one" /\ cur # 0 THEN <<cur>> \o q ELSE q
        q2 == IF repeat_mode = "all" /\ history # <<>> THEN q1 \o history ELSE q1
    IN  IF stopped
        THEN /\ queue' = q
             /\ current' = IF DELETE_PANEL_ON_IDLE THEN cur ELSE 0
             /\ SetPc(t, "stopped_panel")
        ELSE /\ queue' = q2
             /\ current' = cur
             /\ SetPc(t, IF q2 # <<>> THEN "next_panel" ELSE "drain")

\* lines 1094-1119 after _on_track_end, with q and cur the queue and current then:
\* the stop branch, the repeat logic and the choice of the post-track panel path
PostTrack(t, q, cur) ==
    LET q1 == IF repeat_mode = "one" /\ cur # 0 THEN <<cur>> \o q ELSE q
        q2 == IF q1 = <<>> /\ repeat_mode = "all" /\ history # <<>> THEN q1 \o history ELSE q1
    IN  IF stopped
        THEN /\ queue' = q
             /\ current' = IF DELETE_PANEL_ON_IDLE THEN cur ELSE 0
             /\ SetPc(t, "stopped_panel")
        ELSE /\ queue' = q2
             /\ current' = cur
             /\ SetPc(t, IF q2 # <<>> THEN "next_panel" ELSE "drain")

\* lines 1069-1119: the completion gate is set; clean up, drop current when nothing is
\* left, _on_track_end, and (unless _safe_disconnect has to be awaited) the post-track step
LoopTrackEnd(t) ==
    /\ loopPc[t] = "wait_next"
    /\ next_event
    /\ CancelUiTask
    /\ navigating_history' = FALSE
    /\ StartIdleTimerIfNeeded
    /\ LET cur == IF queue = <<>> /\ voice # "none" /\ play = "idle" THEN 0 ELSE current
       IN  IF voice = "conn" /\ ~humans
           THEN /\ VoiceDisconnect
                /\ current' = cur
                /\ SetPc(t, "end_disc")
                /\ UNCHANGED queue
           ELSE /\ PostTrack(t, queue, cur)
                /\ UNCHANGED voiceVars
    /\ UNCHANGED <<history, history_index, repeat_mode, seq_counter, stopped, loop_task,
                   next_event, queue_event, calls, ghostVars, panelVars, registryVars,
                   resolverVars, progressVars, bumpVars>>

\* _on_track_end returns from _safe_disconnect (its panel update may raise): post-track step
LoopEndPanel(t) ==
    /\ loopPc[t] = "end_panel"
    /\ \E raised \in BOOLEAN :
         IF raised
         THEN SetPc(t, "crashed") /\ UNCHANGED <<queue, current>>
         ELSE PostTrack(t, queue, current)
    /\ UNCHANGED <<history, history_index, repeat_mode, navigating_history, seq_counter,
                   stopped, loop_task, voiceVars, next_event, queue_event, idleVars,
                   calls, ghostVars, panelVars, sideVars>>

\* lines 1106-1119: panel update, forced bump and the hold (MUSIC_LAST_PLAYED_SECONDS)
\* with the queue drained; then current is cleared and the panel updated again
LoopDrain(t) ==
    /\ loopPc[t] = "drain"
    /\ \E raised \in BOOLEAN :
         IF raised
         THEN SetPc(t, "crashed") /\ UNCHANGED current
         ELSE /\ current' = IF DELETE_PANEL_ON_IDLE THEN current ELSE 0
              /\ SetPc(t, "final_panel")
    /\ UNCHANGED <<queue, history, history_index, repeat_mode, navigating_history,
                   seq_counter, stopped, loop_task, voiceVars, next_event, queue_event,
                   idleVars, calls, ghostVars, panelVars, sideVars>>

\* _ui_updater (lines 978-987): one pass of its while loop; the task ends when the voice
\* client is gone or neither playing nor paused, or when a panel call raises
UiUpdater ==
    /\ ui_task = "run"
    /\ \E raised \in BOOLEAN :
         IF voice # "none" /\ play # "idle" /\ ~raised
         THEN UNCHANGED uiVars
         ELSE /\ ui_task' = "done"
              /\ uiAlive' = uiAlive - 1
    /\ UNCHANGED <<playerVars, loop_task, loopPc, voiceVars, next_event, queue_event, idleVars,
                   calls, ghostVars, panelVars, registryVars, resolverVars, progressVars,
                   bumpVars>>

LoopStep(t) ==
    \/ LoopStart(t)
    \/ LoopExit(t)
    \/ LoopAlone(t)
    \/ LoopSafeDisconnect(t)
    \/ LoopIdleTimeout(t)
    \/ LoopIdleDisconnected(t)
    \/ LoopPanelDone(t)
    \/ LoopQueueWait(t)
    \/ LoopQueueTimeout(t)
    \/ LoopQueueWake(t)
    \/ LoopDequeueEmpty(t)
    \/ LoopDiscard(t)
    \/ LoopPlay(t)
    \/ LoopStartPanel(t)
    \/ LoopTrackEnd(t)
    \/ LoopEndPanel(t)
    \/ LoopDrain(t)

----------------------------------------------------------------------------
(* The idle countdown task: _idle_wait of _start_idle_timer_if_needed *)

SetIdlePc(i, pc) == idlePc' = [idlePc EXCEPT ![i] = pc]

\* the finally clause of _idle_wait
IdleFinally(i) ==
    /\ idle_task' = 0
    /\ idle_started_mono' = NoStamp
    /\ idlePc' = [idlePc EXCEPT ![i] = "free"]
    /\ idleAge' = [idleAge EXCEPT ![i] = 0]

\* the task starts running: stamp the start and sleep. The event loop runs what it
\* has scheduled in order, and the wake-up of a task cancelled in its sleep was
\* scheduled before any task created after that cancellation
IdleRun(i) ==
    /\ idlePc[i] = "new"
    /\ \A j \in IdleSlots : idlePc[j] # "cancelled"
    /\ idle_started_mono' = 0
    /\ SetIdlePc(i, "sleep")
    /\ UNCHANGED <<playerVars, loop_task, loopPc, voiceVars, next_event, queue_event,
                   idle_task, idleAge, calls, ghostVars, panelVars, sideVars>>

\* the sleep is over and one of the three checks makes the task return
IdleGiveUp(i) ==
    /\ idlePc[i] = "sleep"
    /\ idleAge[i] >= IDLE_SECONDS
    /\ voice # "conn" \/ play # "idle" \/ queue # <<>>
    /\ IdleFinally(i)
    /\ UNCHANGED <<playerVars, loop_task, loopPc, voiceVars, next_event, queue_event,
                   calls, ghostVars, panelVars, sideVars>>

\* the sleep is over and the player is still idle: _safe_disconnect, await voice.disconnect
IdleTimeout(i) ==
    /\ idlePc[i] = "sleep"
    /\ idleAge[i] >= IDLE_SECONDS
    /\ voice = "conn" /\ play = "idle" /\ queue = <<>>
    /\ VoiceDisconnect
    /\ SetIdlePc(i, "disc")
    /\ UNCHANGED <<playerVars, loop_task, loopPc, next_event, queue_event, idle_task,
                   idleAge, idle_started_mono, calls, ghostVars, panelVars, sideVars>>

\* _safe_disconnect resumes after voice.disconnect and awaits the panel update
IdleSafeDisconnect(i) ==
    /\ idlePc[i] = "disc"
    /\ SafeDisconnectClear
    /\ SetIdlePc(i, "panel")
    /\ UNCHANGED <<history, history_index, repeat_mode, navigating_history, seq_counter,
                   stopped, loop_task, loopPc, play, humans, afterPending, next_event,
                   queue_event, idle_task, idleAge, calls, ghostVars, panelVars, sideVars>>

\* the panel update returns or raises, or the cancelled task is resumed with
\* CancelledError: in each case the finally clause runs and the task is done
IdleEnd(i) ==
    /\ idlePc[i] \in {"panel", "cancelled", "aborted"}
    /\ IdleFinally(i)
    /\ UNCHANGED <<playerVars, loop_task, loopPc, voiceVars, next_event, queue_event,
                   calls, ghostVars, panelVars, sideVars>>

IdleStep(i) ==
    \/ IdleRun(i)
    \/ IdleGiveUp(i)
    \/ IdleTimeout(i)
    \/ IdleSafeDisconnect(i)
    \/ IdleEnd(i)

----------------------------------------------------------------------------
(* The voice channel, the audio player and the clock *)

Older(age) == Min(age + TickSeconds, IDLE_SECONDS)

\* time passes
Tick ==
    /\ idleAge' = [i \in IdleSlots |-> IF idlePc[i] = "sleep" THEN Older(idleAge[i]) ELSE idleAge[i]]
    /\ idle_started_mono' = IF idle_started_mono = NoStamp THEN NoStamp ELSE Older(idle_started_mono)
    /\ sinceActivity' = Older(sinceActivity)
    /\ UNCHANGED <<playerVars, loop_task, loopPc, voiceVars, next_event, queue_event,
                   idle_task, idlePc, calls, panelVars, sideVars>>

\* the last human leaves the voice channel
HumansLeave ==
    /\ voice = "conn" /\ humans
    /\ humans' = FALSE
    /\ UNCHANGED <<playerVars, loop_task, loopPc, voice, play, afterPending, next_event,
                   queue_event, idleVars, calls, ghostVars, panelVars, sideVars>>

\* a human joins the voice channel the bot is alone in
HumansJoin ==
    /\ voice = "conn" /\ ~humans
    /\ humans' = TRUE
    /\ UNCHANGED <<playerVars, loop_task, loopPc, voice, play, afterPending, next_event,
                   queue_event, idleVars, calls, ghostVars, panelVars, sideVars>>

\* the stream of the playing track ends: the player thread calls after_play
TrackFinished ==
    /\ play = "playing"
    /\ afterPending < MaxAfter
    /\ play' = "idle"
    /\ afterPending' = afterPending + 1
    /\ UNCHANGED <<playerVars, loop_task, loopPc, voice, humans, next_event, queue_event,
                   idleVars, calls, ghostVars, panelVars, sideVars>>

\* after_play's call_soon_threadsafe(self.next_event.set) runs on the event loop
AfterPlay ==
    /\ afterPending > 0
    /\ afterPending' = afterPending - 1
    /\ next_event' = TRUE
    /\ UNCHANGED <<playerVars, loop_task, loopPc, voice, play, humans, queue_event,
                   idleVars, calls, ghostVars, panelVars, sideVars>>

----------------------------------------------------------------------------
(* Commands and panel buttons *)

\* what create_tracks_from_query can give one enqueue call: an exception, or tracks,
\* each with a stream_url (TRUE) or without one
BoolSeqs(n) == UNION {[1..k -> BOOLEAN] : k \in 0..n}

ResolverResults(maxBatch) ==
    {[fail |-> TRUE, usable |-> <<>>]} \cup {[fail |-> FALSE, usable |-> u] : u \in BoolSeqs(maxBatch)}

\* a resolver that finds one playable track
OneTrack == [fail |-> FALSE, usable |-> <<TRUE>>]

RECURSIVE GoodCount(_)
GoodCount(u) == IF u = <<>> THEN 0 ELSE (IF Head(u) THEN 1 ELSE 0) + GoodCount(Tail(u))

RECURSIVE InFlightGood(_)
InFlightGood(cs) == IF cs = <<>> THEN 0 ELSE GoodCount(Head(cs).usable) + InFlightGood(Tail(cs))

\* seqs given to a batch from its last track to its first
NewSeqsDescending(n, k) == [j \in 1..k |-> n + k + 1 - j]

\* the seqs enqueue gives the tracks it wraps, counter first at n
NewSeqs(n, k) == [j \in 1..k |-> n + j]

\* the calls in flight are kept in one order, whatever the order they were made in:
\* any of them may resume first
RECURSIVE ResultCode(_)
ResultCode(u) == IF u = <<>> THEN 1 ELSE 2 * ResultCode(Tail(u)) + (IF Head(u) THEN 1 ELSE 0)

ResultRank(r) == IF r.fail THEN 0 ELSE ResultCode(r.usable)

RECURSIVE AddCall(_, _)
AddCall(cs, r) ==
    IF cs = <<>> THEN <<r>>
    ELSE IF ResultRank(r) <= ResultRank(Head(cs)) THEN <<r>> \o cs
    ELSE <<Head(cs)>> \o AddCall(Tail(cs), r)

RemoveAt(sq, i) == SubSeq(sq, 1, i - 1) \o SubSeq(sq, i + 1, Len(sq))

\* ensure_loop without its test of the task it already has
EnsureLoopAlways ==
    /\ HasFreeLoopSlot
    /\ loop_task' = FreeLoopSlot
    /\ loopPc' = [loopPc EXCEPT ![FreeLoopSlot] = "start"]

\* ensure_loop()
EnsureLoop ==
    IF loop_task = 0 \/ LoopDone(loopPc[loop_task])
    THEN /\ HasFreeLoopSlot
         /\ loop_task' = FreeLoopSlot
         /\ loopPc' = [loopPc EXCEPT ![FreeLoopSlot] = "start"]
    ELSE UNCHANGED <<loop_task, loopPc>>

\* /play by a member who is in a voice channel: connect (or move) to that channel,
\* then enqueue awaits the resolver
SlashPlay(r, maxCalls, maxSeq, room) ==
    /\ Len(calls) < maxCalls
    /\ seq_counter + InFlightGood(calls) + GoodCount(r.usable) <= maxSeq
    /\ Len(queue) + InFlightGood(calls) + GoodCount(r.usable) <= room
    /\ voice' = "conn"
    /\ play' = IF voice = "conn" THEN play ELSE "idle"
    /\ humans' = TRUE
    /\ calls' = AddCall(calls, r)
    /\ UNCHANGED <<playerVars, loop_task, loopPc, afterPending, next_event, queue_event,
                   idleVars, ghostVars, panelVars, sideVars>>

\* a failing enqueue that still signals the queue event
EnqueueFailedSignals(i) ==
    /\ i \in 1..Len(calls)
    /\ calls[i].fail
    /\ calls' = RemoveAt(calls, i)
    /\ queue_event' = TRUE
    /\ UNCHANGED <<playerVars, loop_task, loopPc, voiceVars, next_event,
                   idleVars, ghostVars, panelVars, sideVars>>

\* the resolver raises: enqueue raises RuntimeError and /play reports it
EnqueueFailed(i) ==
    /\ i \in 1..Len(calls)
    /\ calls[i].fail
    /\ calls' = RemoveAt(calls, i)
    /\ UNCHANGED <<playerVars, loop_task, loopPc, voiceVars, next_event, queue_event,
                   idleVars, ghostVars, panelVars, sideVars>>

\* enqueue without the filter on tracks that have no stream
EnqueueKeepAll(i) ==
    /\ i \in 1..Len(calls)
    /\ ~calls[i].fail
    /\ LET k == Len(calls[i].usable)
           good == NewSeqs(seq_counter, k)
       IN  /\ seq_counter' = seq_counter + k
           /\ queue' = queue \o good
           /\ IF good # <<>>
              THEN /\ queue_event' = TRUE
                   /\ EnsureLoop
                   /\ CancelIdleTimer
                   /\ sinceActivity' = IF queue = <<>> THEN 0 ELSE sinceActivity
              ELSE UNCHANGED <<queue_event, loop_task, loopPc, idleVars, sinceActivity>>
    /\ calls' = RemoveAt(calls, i)
    /\ UNCHANGED <<current, history, history_index, repeat_mode, navigating_history,
                   stopped, voiceVars, next_event, panelVars, sideVars>>

\* lines 623-645: the resolver returns; the tracks with a stream are wrapped and appended
Enqueue(i) ==
    /\ i \in 1..Len(calls)
    /\ ~calls[i].fail
    /\ LET k == GoodCount(calls[i].usable)
           good == NewSeqs(seq_counter, k)
       IN  /\ seq_counter' = seq_counter + k
           /\ queue' = queue \o good
           /\ IF good # <<>>
              THEN /\ queue_event' = TRUE
                   /\ EnsureLoop
                   /\ CancelIdleTimer
                   /\ sinceActivity' = IF queue = <<>> THEN 0 ELSE sinceActivity
              ELSE UNCHANGED <<queue_event, loop_task, loopPc, idleVars, sinceActivity>>
    /\ calls' = RemoveAt(calls, i)
    /\ UNCHANGED <<current, history, history_index, repeat_mode, navigating_history,
                   stopped, voiceVars, next_event, panelVars, sideVars>>

\* skip()
Skip ==
    /\ IF voice # "none" THEN VoiceStop ELSE UNCHANGED voiceVars
    /\ UNCHANGED <<playerVars, loop_task, loopPc, next_event, queue_event, idleVars,
                   calls, ghostVars, panelVars, sideVars>>

\* stop() flipping the stop flag
StopFlipsFlag ==
    /\ stopped' = ~stopped
    /\ IF voice # "none" THEN VoiceStop ELSE UNCHANGED voiceVars
    /\ queue' = <<>>
    /\ UNCHANGED <<current, history, history_index, repeat_mode, navigating_history,
                   seq_counter, loop_task, loopPc, next_event, queue_event, idleVars,
                   calls, ghostVars, panelVars, sideVars>>

\* stop()
Stop ==
    /\ stopped' = TRUE
    /\ IF voice # "none" THEN VoiceStop ELSE UNCHANGED voiceVars
    /\ queue' = <<>>
    /\ UNCHANGED <<current, history, history_index, repeat_mode, navigating_history,
                   seq_counter, loop_task, loopPc, next_event, queue_event, idleVars,
                   calls, ghostVars, panelVars, sideVars>>

\* the pause/resume button: pause() when playing, resume() when paused
Toggle ==
    /\ play' = IF voice # "none" /\ play = "playing" THEN "paused"
               ELSE IF voice # "none" /\ play = "paused" THEN "playing"
               ELSE play
    /\ UNCHANGED <<playerVars, loop_task, loopPc, voice, humans, afterPending, next_event,
                   queue_event, idleVars, calls, ghostVars, panelVars, sideVars>>

\* a repeat button that only toggles between off and one
CycleModeToggle(m) ==
    CASE m = "off" -> "one"
      [] m = "one" -> "off"
      [] m = "all" -> "all"

\* the table of the repeat button (line 387)
CycleMode(m) ==
    CASE m = "off" -> "one"
      [] m = "one" -> "all"
      [] m = "all" -> "off"

\* the repeat button
RepeatCycle ==
    /\ repeat_mode' = CycleMode(repeat_mode)
    /\ UNCHANGED <<queue, current, history, history_index, navigating_history, seq_counter,
                   stopped, loop_task, loopPc, voiceVars, next_event, queue_event, idleVars,
                   calls, ghostVars, panelVars, sideVars>>

\* some queued track has this seq
Queued(q, seq) == \E j \in 1..Len(q) : q[j] = seq

\* play_previous going back, putting the current track behind the target in every case
QueueAfterBackAlways(q, cur, target) ==
    <<target>> \o (IF cur # 0 THEN <<cur>> ELSE <<>>) \o q

\* the queue play_previous leaves when it goes back (lines 934-939)
QueueAfterBack(q, cur, target) ==
    <<target>> \o (IF cur # 0 /\ ~Queued(q, cur) THEN <<cur>> ELSE <<>>) \o q

\* play_previous at the start of the history with the new track appended, not put in front
QueueAfterRestartBehind(q, cur) == q \o <<cur>>

\* the queue play_previous leaves when it restarts the current track (line 929)
QueueAfterRestart(q, cur) == <<cur>> \o q

\* play_previous(), behind the previous button (which does nothing when
\* can_go_previous() is false, as play_previous itself does), while the queue
\* stays within maxLen entries
PlayPreviousWithin(maxLen) ==
    /\ IF history = <<>>
       THEN UNCHANGED <<queue, history_index, navigating_history, voiceVars>>
       ELSE IF history_index <= 0
       THEN IF current # 0
            THEN /\ Len(queue) < maxLen
                 /\ queue' = QueueAfterRestart(queue, current)
                 /\ IF voice # "none" THEN VoiceStop ELSE UNCHANGED voiceVars
                 /\ UNCHANGED <<history_index, navigating_history>>
            ELSE UNCHANGED <<queue, history_index, navigating_history, voiceVars>>
       ELSE LET pointer == history_index - 1
                target == history[pointer + 1]
            IN  /\ Len(QueueAfterBack(queue, current, target)) <= maxLen
                /\ queue' = QueueAfterBack(queue, current, target)
                /\ history_index' = pointer
                /\ navigating_history' = TRUE
                /\ IF voice # "none" THEN VoiceStop ELSE UNCHANGED voiceVars
    /\ UNCHANGED <<current, history, repeat_mode, seq_counter, stopped, loop_task, loopPc,
                   next_event, queue_event, idleVars, calls, ghostVars, panelVars, sideVars>>

PlayPrevious == PlayPreviousWithin(MaxQueue)

\* play_next_from_history putting the history entry at the back of the queue
PlayNextAppendsWithin(maxLen) ==
    /\ IF history = <<>> \/ history_index = -1 \/ history_index >= Len(history) - 1
       THEN UNCHANGED <<queue, history_index, navigating_history, voiceVars>>
       ELSE LET pointer == history_index + 1
            IN  /\ Len(queue) < maxLen
                /\ history_index' = IF pointer >= Len(history) - 1 THEN Len(history) - 1 ELSE pointer
                /\ navigating_history' = TRUE
                /\ queue' = queue \o <<history[pointer + 1]>>
                /\ IF voice # "none" THEN VoiceStop ELSE UNCHANGED voiceVars
    /\ UNCHANGED <<current, history, repeat_mode, seq_counter, stopped, loop_task, loopPc,
                   next_event, queue_event, idleVars, calls, ghostVars, panelVars, sideVars>>

\* play_next_from_history(), while the queue stays within maxLen entries
PlayNextFromHistoryWithin(maxLen) ==
    /\ IF history = <<>> \/ history_index = -1 \/ history_index >= Len(history) - 1
       THEN UNCHANGED <<queue, history_index, navigating_history, voiceVars>>
       ELSE LET pointer == history_index + 1
            IN  /\ Len(queue) < maxLen
                /\ history_index' = IF pointer >= Len(history) - 1 THEN Len(history) - 1 ELSE pointer
                /\ navigating_history' = TRUE
                /\ queue' = <<history[pointer + 1]>> \o queue
                /\ IF voice # "none" THEN VoiceStop ELSE UNCHANGED voiceVars
    /\ UNCHANGED <<current, history, repeat_mode, seq_counter, stopped, loop_task, loopPc,
                   next_event, queue_event, idleVars, calls, ghostVars, panelVars, sideVars>>

PlayNextFromHistory == PlayNextFromHistoryWithin(MaxQueue)

\* /repeat with a valid mode, or a button of the repeat picker
SetRepeat(mode) ==
    /\ mode \in RepeatModes
    /\ repeat_mode' = mode
    /\ UNCHANGED <<queue, current, history, history_index, navigating_history, seq_counter,
                   stopped, loop_task, loopPc, voiceVars, next_event, queue_event, idleVars,
                   calls, ghostVars, panelVars, sideVars>>

\* what /repeat can be given: a valid mode, no mode (""), or some other text
RepeatArgs == RepeatModes \cup {"", "shuffle"}

\* /repeat: with no mode the picker is shown, another text is rejected, a valid mode is set
SlashRepeat(mode) ==
    /\ repeat_mode' = IF mode # "" /\ mode \in {"off", "one", "all"} THEN mode ELSE repeat_mode
    /\ UNCHANGED <<queue, current, history, history_index, navigating_history, seq_counter,
                   stopped, loop_task, loopPc, voiceVars, next_event, queue_event, idleVars,
                   calls, ghostVars, panelVars, sideVars>>

----------------------------------------------------------------------------
(* The control panel: post_or_update_panel, _bump_panel_if_needed and          *)
(* _cleanup_old_panels, one action per stretch of code between two awaits.     *)
(* A panel call is one invocation of one of them, by whichever handler or task *)
(* made it; the messages of the text channels are those the bot sent, each     *)
(* with the embed it was sent with.  The playback loop above keeps only the    *)
(* outcome of its panel calls (they return, or raise).                         *)

coreVars == <<playerVars, loop_task, loopPc, voiceVars, next_event, queue_event, idleVars,
              calls, ghostVars, sideVars>>

CONSOLE_NAME == "DiscBot Music Console"

\* _panel_embed(): the title is set, the author never is
PanelEmbed == [title |-> CONSOLE_NAME, author |-> ""]

\* the test of _cleanup_old_panels on the first embed of a message
CleanupMatches(embed) == embed.author # "" /\ embed.author = CONSOLE_NAME

\* ch.fetch_message(id) finds the message
MsgExists(ch, id) == \E m \in panelMsgs : m.id = id /\ m.ch = ch

\* the messages of a channel that show the panel
PanelsIn(ch) == {m \in panelMsgs : m.ch = ch /\ m.embed.title = CONSOLE_NAME}

\* _cleanup_old_panels(ch, keep_id): what is left in panelMsgs
CleanupOldPanels(msgs, ch, keep_id) ==
    {m \in msgs : ~(m.ch = ch /\ m.id # keep_id /\ CleanupMatches(m.embed))}

ActivePanelCalls == Cardinality({c \in PanelCalls : panelPc[c] # "free"})

\* a call may start while the channel has room for the message it may send
PanelRoom == lastMsgId + ActivePanelCalls < MaxMsgs

SetPanelPc(c, pc) == panelPc' = [panelPc EXCEPT ![c] = pc]

PanelCallEnds(c) ==
    /\ SetPanelPc(c, "free")
    /\ panelMsg' = [panelMsg EXCEPT ![c] = 0]
    /\ panelCh' = [panelCh EXCEPT ![c] = 0]

\* ch.send(embed=self._panel_embed(), ...) reaches the channel
SendPanel(c) ==
    /\ lastMsgId' = lastMsgId + 1
    /\ panelMsgs' = panelMsgs \cup {[id |-> lastMsgId + 1, ch |-> panelCh[c], embed |-> PanelEmbed]}
    /\ panelMsg' = [panelMsg EXCEPT ![c] = lastMsgId + 1]

\* async with self._panel_lock on entry: an unlocked lock nobody waits for is taken
\* without suspending; with a recorded panel the message is then fetched, else a new
\* one is sent.  Otherwise the call waits for the lock.
PostEnter(c, ch) ==
    /\ panelCh' = [panelCh EXCEPT ![c] = ch]
    /\ IF panel_lock = 0 /\ \A d \in PanelCalls : panelPc[d] # "pu_lock"
       THEN /\ panel_lock' = c
            /\ SetPanelPc(c, IF panel_message_id # 0 THEN "pu_fetch" ELSE "pu_send")
            /\ panelMsg' = [panelMsg EXCEPT ![c] = panel_message_id]
       ELSE /\ SetPanelPc(c, "pu_lock")
            /\ UNCHANGED <<panel_lock, panelMsg>>

\* post_or_update_panel is called with a panel channel set (on_message, the buttons,
\* the loop, pause/resume/stop/skip all call it)
PostStart(c) ==
    /\ panelPc[c] = "free"
    /\ panel_channel_id # 0
    /\ PanelRoom
    /\ PostEnter(c, panel_channel_id)
    /\ UNCHANGED <<coreVars, panel_channel_id, panel_message_id, panelMsgs, lastMsgId>>

\* /panel sethere in a text channel: set_panel_channel(force=True), then post_or_update_panel
PanelSetHere(c, ch) ==
    /\ panelPc[c] = "free"
    /\ PanelRoom
    /\ panel_channel_id' = ch
    /\ PostEnter(c, ch)
    /\ UNCHANGED <<coreVars, panel_message_id, panelMsgs, lastMsgId>>

\* a waiting call gets the released lock
PostAcquire(c) ==
    /\ panelPc[c] = "pu_lock"
    /\ panel_lock = 0
    /\ panel_lock' = c
    /\ SetPanelPc(c, IF panel_message_id # 0 THEN "pu_fetch" ELSE "pu_send")
    /\ panelMsg' = [panelMsg EXCEPT ![c] = panel_message_id]
    /\ UNCHANGED <<coreVars, panel_channel_id, panel_message_id, panelMsgs, lastMsgId, panelCh>>

\* fetch_message returns the message, or raises NotFound and the id is forgotten
PostFetch(c) ==
    /\ panelPc[c] = "pu_fetch"
    /\ IF MsgExists(panelCh[c], panelMsg[c])
       THEN /\ SetPanelPc(c, "pu_edit")
            /\ UNCHANGED panel_message_id
       ELSE /\ SetPanelPc(c, "pu_send")
            /\ panel_message_id' = 0
    /\ UNCHANGED <<coreVars, panel_channel_id, panelMsgs, lastMsgId, panel_lock, panelMsg, panelCh>>

\* msg.edit puts the current embed on the message, or raises NotFound
PostEdit(c) ==
    /\ panelPc[c] = "pu_edit"
    /\ IF MsgExists(panelCh[c], panelMsg[c])
       THEN /\ SetPanelPc(c, "pu_clean")
            /\ panelMsgs' = {IF m.id = panelMsg[c] THEN [m EXCEPT !.embed = PanelEmbed] ELSE m :
                             m \in panelMsgs}
            /\ UNCHANGED panel_message_id
       ELSE /\ SetPanelPc(c, "pu_send")
            /\ panel_message_id' = 0
            /\ UNCHANGED panelMsgs
    /\ UNCHANGED <<coreVars, panel_channel_id, lastMsgId, panel_lock, panelMsg, panelCh>>

\* msg.edit raises Forbidden or another HTTPException (an error status of the API): the
\* handler forgets the id and the call goes on to send
PostEditRefused(c) ==
    /\ panelPc[c] = "pu_edit"
    /\ panel_message_id' = 0
    /\ SetPanelPc(c, "pu_send")
    /\ UNCHANGED <<coreVars, panel_channel_id, panelMsgs, lastMsgId, panel_lock, panelMsg, panelCh>>

\* msg.edit raises something that is not an HTTPException (the connection failed, the
\* request timed out): no handler applies, the lock is released and the call raises
PostEditBreaks(c) ==
    /\ panelPc[c] = "pu_edit"
    /\ panel_lock' = IF panel_lock = c THEN 0 ELSE panel_lock
    /\ SetPanelPc(c, "raised")
    /\ UNCHANGED <<coreVars, panel_channel_id, panel_message_id, panelMsgs, lastMsgId,
                   panelMsg, panelCh>>

\* ch.send raises Forbidden or another HTTPException: it is logged, the lock is released
\* and the call returns
PostSendRefused(c) ==
    /\ panelPc[c] = "pu_send"
    /\ panel_lock' = IF panel_lock = c THEN 0 ELSE panel_lock
    /\ PanelCallEnds(c)
    /\ UNCHANGED <<coreVars, panel_channel_id, panel_message_id, panelMsgs, lastMsgId>>

\* ch.send raises something that is not an HTTPException: the lock is released and the
\* call raises
PostSendBreaks(c) ==
    /\ panelPc[c] = "pu_send"
    /\ panel_lock' = IF panel_lock = c THEN 0 ELSE panel_lock
    /\ SetPanelPc(c, "raised")
    /\ UNCHANGED <<coreVars, panel_channel_id, panel_message_id, panelMsgs, lastMsgId,
                   panelMsg, panelCh>>

\* the exception of post_or_update_panel reaches its caller
PostRaised(c) ==
    /\ panelPc[c] = "raised"
    /\ PanelCallEnds(c)
    /\ UNCHANGED <<coreVars, panel_channel_id, panel_message_id, panelMsgs, lastMsgId,
                   panel_lock>>

\* ch.send creates the new panel message
PostSend(c) ==
    /\ panelPc[c] = "pu_send"
    /\ SendPanel(c)
    /\ SetPanelPc(c, "pu_sent")
    /\ UNCHANGED <<coreVars, panel_channel_id, panel_message_id, panel_lock, panelCh>>

\* the send returns: self.panel_message_id = msg.id
PostSent(c) ==
    /\ panelPc[c] = "pu_sent"
    /\ panel_message_id' = panelMsg[c]
    /\ SetPanelPc(c, "pu_clean")
    /\ UNCHANGED <<coreVars, panel_channel_id, panelMsgs, lastMsgId, panel_lock, panelMsg, panelCh>>

\* _cleanup_old_panels(ch, msg.id), then the lock is released and the call returns
PostCleanup(c) ==
    /\ panelPc[c] = "pu_clean"
    /\ panelMsgs' = CleanupOldPanels(panelMsgs, panelCh[c], panelMsg[c])
    /\ panel_lock' = IF panel_lock = c THEN 0 ELSE panel_lock
    /\ PanelCallEnds(c)
    /\ UNCHANGED <<coreVars, panel_channel_id, panel_message_id, lastMsgId>>

\* _bump_panel_if_needed(force=True) with a recorded panel (the loop after a track
\* starts and after the queue drained): the old message is fetched, no lock is taken
BumpStart(c) ==
    /\ panelPc[c] = "free"
    /\ panel_message_id # 0
    /\ panel_channel_id # 0
    /\ PanelRoom
    /\ SetPanelPc(c, "b_fetch")
    /\ panelMsg' = [panelMsg EXCEPT ![c] = panel_message_id]
    /\ panelCh' = [panelCh EXCEPT ![c] = panel_channel_id]
    /\ UNCHANGED <<coreVars, panel_channel_id, panel_message_id, panelMsgs, lastMsgId, panel_lock>>

\* fetch_message returns old, or raises (ignored)
BumpFetch(c) ==
    /\ panelPc[c] = "b_fetch"
    /\ SetPanelPc(c, IF MsgExists(panelCh[c], panelMsg[c]) THEN "b_delete" ELSE "b_send")
    /\ UNCHANGED <<coreVars, panel_channel_id, panel_message_id, panelMsgs, lastMsgId,
                   panel_lock, panelMsg, panelCh>>

\* old.delete() removes the message, or raises (ignored)
BumpDelete(c) ==
    /\ panelPc[c] = "b_delete"
    /\ panelMsgs' = {m \in panelMsgs : m.id # panelMsg[c]}
    /\ SetPanelPc(c, "b_send")
    /\ UNCHANGED <<coreVars, panel_channel_id, panel_message_id, lastMsgId, panel_lock,
                   panelMsg, panelCh>>

\* ch.send creates the new panel message
BumpSend(c) ==
    /\ panelPc[c] = "b_send"
    /\ SendPanel(c)
    /\ SetPanelPc(c, "b_sent")
    /\ UNCHANGED <<coreVars, panel_channel_id, panel_message_id, panel_lock, panelCh>>

\* the send returns: self.panel_message_id = msg.id
BumpSent(c) ==
    /\ panelPc[c] = "b_sent"
    /\ panel_message_id' = panelMsg[c]
    /\ SetPanelPc(c, "b_clean")
    /\ UNCHANGED <<coreVars, panel_channel_id, panelMsgs, lastMsgId, panel_lock, panelMsg, panelCh>>

\* _cleanup_old_panels(ch, msg.id), then the call returns
BumpCleanup(c) ==
    /\ panelPc[c] = "b_clean"
    /\ panelMsgs' = CleanupOldPanels(panelMsgs, panelCh[c], panelMsg[c])
    /\ PanelCallEnds(c)
    /\ UNCHANGED <<coreVars, panel_channel_id, panel_message_id, lastMsgId, panel_lock>>

\* what no step of a non-forced bump touches
bumpFrame == <<playerVars, loop_task, loopPc, voiceVars, next_event, queue_event, idleVars,
               calls, ghostVars, registryVars, resolverVars, progressVars, uiVars>>

\* another member writes in the panel channel: the channel's last_message_id moves on
\* (lastMsgId counts the messages of the one channel used here, whoever wrote them)
UserMessage ==
    /\ panel_channel_id # 0
    /\ lastMsgId + ActivePanelCalls < SoftMaxMsgs
    /\ lastMsgId' = lastMsgId + 1
    /\ UNCHANGED <<bumpFrame, panel_channel_id, panel_message_id, panelMsgs, panel_lock,
                   panelPc, panelMsg, panelCh, bumpVars>>

\* an age one tick later, saturated at the bump interval
BumpOlder(age) == Min(age + BumpTickSeconds, PANEL_BUMP_SECONDS)

\* time passes for the bump stamps
BumpTick ==
    /\ last_panel_bump' = BumpOlder(last_panel_bump)
    /\ bumpNow' = [c \in PanelCalls |-> BumpOlder(bumpNow[c])]
    /\ sinceRepost' = IF sinceRepost = NoStamp THEN NoStamp ELSE BumpOlder(sinceRepost)
    /\ \/ last_panel_bump' # last_panel_bump
       \/ bumpNow' # bumpNow
       \/ sinceRepost' # sinceRepost
    /\ UNCHANGED <<bumpFrame, panelVars>>

\* lines 817-820 with force = False: the panel is not the channel's last message and the
\* last recorded bump is at least max(PANEL_BUMP_SECONDS, 1) seconds old
SoftShouldBump ==
    /\ lastMsgId # panel_message_id
    /\ ~(last_panel_bump < Max(PANEL_BUMP_SECONDS, 1))

\* _bump_panel_if_needed(force=False), from the UI refresher or from on_message, up to
\* its first await: it goes on only with a recorded panel, a positive interval, a
\* channel, and should_bump; now_mono is read here
SoftBumpStart(c) ==
    /\ panelPc[c] = "free"
    /\ panel_message_id # 0
    /\ PANEL_BUMP_SECONDS > 0
    /\ panel_channel_id # 0
    /\ lastMsgId + ActivePanelCalls < SoftMaxMsgs
    /\ SoftShouldBump
    /\ SetPanelPc(c, "sb_fetch")
    /\ panelMsg' = [panelMsg EXCEPT ![c] = panel_message_id]
    /\ panelCh' = [panelCh EXCEPT ![c] = panel_channel_id]
    /\ bumpNow' = [bumpNow EXCEPT ![c] = 0]
    /\ UNCHANGED <<bumpFrame, panel_channel_id, panel_message_id, panelMsgs, lastMsgId,
                   panel_lock, last_panel_bump, sinceRepost>>

\* fetch_message returns old, or raises (ignored)
SoftBumpFetch(c) ==
    /\ panelPc[c] = "sb_fetch"
    /\ SetPanelPc(c, IF MsgExists(panelCh[c], panelMsg[c]) THEN "sb_delete" ELSE "sb_send")
    /\ UNCHANGED <<bumpFrame, panel_channel_id, panel_message_id, panelMsgs, lastMsgId,
                   panel_lock, panelMsg, panelCh, bumpVars>>

\* old.delete() removes the message, or raises (ignored)
SoftBumpDelete(c) ==
    /\ panelPc[c] = "sb_delete"
    /\ panelMsgs' = {m \in panelMsgs : m.id # panelMsg[c]}
    /\ SetPanelPc(c, "sb_send")
    /\ UNCHANGED <<bumpFrame, panel_channel_id, panel_message_id, lastMsgId, panel_lock,
                   panelMsg, panelCh, bumpVars>>

\* ch.send creates the new panel message: the panel is re-posted
SoftBumpSend(c) ==
    /\ panelPc[c] = "sb_send"
    /\ SendPanel(c)
    /\ SetPanelPc(c, "sb_sent")
    /\ sinceRepost' = 0
    /\ UNCHANGED <<bumpFrame, panel_channel_id, panel_message_id, panel_lock, panelCh,
                   last_panel_bump, bumpNow>>

\* the send returns: panel_message_id = msg.id and _last_panel_bump_monotonic = now_mono
SoftBumpSent(c) ==
    /\ panelPc[c] = "sb_sent"
    /\ panel_message_id' = panelMsg[c]
    /\ last_panel_bump' = bumpNow[c]
    /\ SetPanelPc(c, "sb_clean")
    /\ UNCHANGED <<bumpFrame, panel_channel_id, panelMsgs, lastMsgId, panel_lock, panelMsg,
                   panelCh, bumpNow, sinceRepost>>

\* _cleanup_old_panels(ch, msg.id), then the call returns
SoftBumpCleanup(c) ==
    /\ panelPc[c] = "sb_clean"
    /\ panelMsgs' = CleanupOldPanels(panelMsgs, panelCh[c], panelMsg[c])
    /\ PanelCallEnds(c)
    /\ UNCHANGED <<bumpFrame, panel_channel_id, panel_message_id, lastMsgId, panel_lock,
                   bumpVars>>

\* the steps of a non-forced bump after its start
SoftBumpStep(c) ==
    \/ SoftBumpFetch(c)
    \/ SoftBumpDelete(c)
    \/ SoftBumpSend(c)
    \/ SoftBumpSent(c)
    \/ SoftBumpCleanup(c)

\* the steps of a post_or_update_panel call
PostStep(c) ==
    \/ PostAcquire(c)
    \/ PostFetch(c)
    \/ PostEdit(c)
    \/ PostSend(c)
    \/ PostSent(c)
    \/ PostCleanup(c)

\* the steps of a post_or_update_panel call whose requests fail
PostFailStep(c) ==
    \/ PostEditRefused(c)
    \/ PostEditBreaks(c)
    \/ PostSendRefused(c)
    \/ PostSendBreaks(c)
    \/ PostRaised(c)

\* the steps of a _bump_panel_if_needed call
BumpStep(c) ==
    \/ BumpFetch(c)
    \/ BumpDelete(c)
    \/ BumpSend(c)
    \/ BumpSent(c)
    \/ BumpCleanup(c)

----------------------------------------------------------------------------
(* The registry of players: Music.get_player over bot._music_players *)

mainVars == <<playerVars, loop_task, loopPc, voiceVars, next_event, queue_event, idleVars,
              calls, ghostVars, panelVars, bumpVars, uiVars>>

\* get_player that constructs a player on every call
GetPlayerAlwaysNew(g) ==
    /\ playerCount < MaxPlayers
    /\ playerCount' = playerCount + 1
    /\ players' = [players EXCEPT ![g] = playerCount + 1]
    /\ returned' = [guild |-> g, player |-> playerCount + 1]
    /\ UNCHANGED <<mainVars, resolverVars, progressVars>>

\* get_player(guild): the registered player of the guild, constructed and registered
\* on the first call (every handler of the cog and of the views starts with it)
GetPlayer(g) ==
    /\ IF players[g] = 0
       THEN /\ playerCount < MaxPlayers
            /\ playerCount' = playerCount + 1
            /\ players' = [players EXCEPT ![g] = playerCount + 1]
            /\ returned' = [guild |-> g, player |-> playerCount + 1]
       ELSE /\ returned' = [guild |-> g, player |-> players[g]]
            /\ UNCHANGED <<players, playerCount>>
    /\ UNCHANGED <<mainVars, resolverVars, progressVars>>

\* on_message: looks the guild's player up and goes on only when there is one
OnMessageLookup(g) ==
    /\ players[g] # 0
    /\ returned' = [guild |-> g, player |-> players[g]]
    /\ UNCHANGED <<players, playerCount, mainVars, resolverVars, progressVars>>

----------------------------------------------------------------------------
(* The track resolver: create_tracks_from_query and its helpers *)

\* the entry is dropped before any lookup: a playlist item without a track or with a local
\* one, a YouTube playlist entry that has neither url nor id
EntrySkipped(q, i) == i <= q.skipped

\* yt_extract raises for the entry ("No streamable audio found" or a failed extraction)
EntryFails(q, i) == i = q.failAt

\* a pager that fetches one page only
SpotifyPagesFirstOnly(n, limit, offset, fetched) ==
    Min(limit, Max(n - offset, 0))

\* _spotify_page_album_tracks / _spotify_page_playlist_items: the number of items the
\* generator yields when it is never closed early; it yields every item of a page and looks
\* at the cap only between pages
RECURSIVE SpotifyPages(_, _, _, _)
SpotifyPages(n, limit, offset, fetched) ==
    LET items == Min(limit, Max(n - offset, 0))
    IN  IF items = 0 THEN fetched
        ELSE IF fetched + items >= SPOTIFY_MAX THEN fetched + items
        ELSE IF items < limit THEN fetched + items
        ELSE SpotifyPages(n, limit, offset + items, fetched + items)

\* the number of items the pager of the query's catalog yields
SpotifyYielded(q) ==
    SpotifyPages(q.entries, IF q.class = "sp_album" THEN ALBUM_PAGE_LIMIT
                            ELSE PLAYLIST_PAGE_LIMIT, 0, 0)

\* [await yt_extract(...)] and [await yt_search_first(...)]: one track, or the exception
YtExtractOne(q) ==
    IF EntryFails(q, 1) THEN [fail |-> TRUE, tracks |-> 0] ELSE [fail |-> FALSE, tracks |-> 1]

\* the queries create_tracks_from_query answers with a for loop over entries
LoopsOverEntries(q) ==
    \/ q.class \in {"sp_album", "sp_playlist"} /\ q.creds
    \/ q.class = "yt_playlist" /\ q.info

\* create_tracks_from_query(query) where it has no loop: whether it raises, and the number
\* of tracks it returns
CreateTracksFromQuery(q) ==
    IF q.class \in {"sp_track", "sp_album", "sp_playlist"} /\ ~q.creds
    THEN [fail |-> TRUE, tracks |-> 0]
    ELSE IF q.class = "yt_playlist" /\ ~q.info THEN [fail |-> TRUE, tracks |-> 0]
    ELSE YtExtractOne(q)

\* the resolver returns or raises
ResolverEnds(r) ==
    /\ resolved' = r
    /\ resolving' = NotResolving

\* the for loop goes on with entry i and count tracks
ResolverGoesOn(i, count) ==
    /\ resolving' = [i |-> i, count |-> count]
    /\ UNCHANGED resolved

\* enqueue awaiting create_tracks_from_query for the query it was given: up to the first
\* iteration of a loop over entries, or to the end
Resolve ==
    /\ resolved = NotResolved
    /\ resolving = NotResolving
    /\ IF LoopsOverEntries(query)
       THEN ResolverGoesOn(1, 0)
       ELSE ResolverEnds(CreateTracksFromQuery(query))
    /\ UNCHANGED <<query, mainVars, registryVars, progressVars>>

\* one iteration of the for loop of the album and playlist branches over the yielded
\* items: only a playlist drops items, a failed lookup raises out of the whole call, the
\* loop breaks when count reaches the cap, and the results are returned as they are
ResolveSpotifyEntry ==
    /\ resolving # NotResolving
    /\ query.class \in {"sp_album", "sp_playlist"}
    /\ LET i == resolving.i
           count == resolving.count
       IN  IF i > SpotifyYielded(query) THEN ResolverEnds([fail |-> FALSE, tracks |-> count])
           ELSE IF query.class = "sp_playlist" /\ EntrySkipped(query, i)
                THEN ResolverGoesOn(i + 1, count)
           ELSE IF EntryFails(query, i) THEN ResolverEnds([fail |-> TRUE, tracks |-> 0])
           ELSE IF count + 1 >= SPOTIFY_MAX
                THEN ResolverEnds([fail |-> FALSE, tracks |-> count + 1])
           ELSE ResolverGoesOn(i + 1, count + 1)
    /\ UNCHANGED <<query, mainVars, registryVars, progressVars>>

\* one iteration of the for loop of yt_extract_playlist (resolving.i is the 1-based entry):
\* it stops at PLAYLIST_MAX entries, drops the entries without url and those whose
\* extraction raises, and raises after the loop when nothing is left
ResolveYtEntry ==
    /\ resolving # NotResolving
    /\ query.class = "yt_playlist"
    /\ LET i == resolving.i
           count == resolving.count
       IN  IF i > query.entries \/ i > PLAYLIST_MAX
           THEN IF count = 0 THEN ResolverEnds([fail |-> TRUE, tracks |-> 0])
                ELSE ResolverEnds([fail |-> FALSE, tracks |-> count])
           ELSE IF EntrySkipped(query, i) \/ EntryFails(query, i)
                THEN ResolverGoesOn(i + 1, count)
           ELSE ResolverGoesOn(i + 1, count + 1)
    /\ UNCHANGED <<query, mainVars, registryVars, progressVars>>

----------------------------------------------------------------------------
(* The progress bar of the panel: fmt_time, estimated_position, _progress_bar *)

\* f"{n:02d}" for 0 <= n < 60
TwoDigits(n) == IF n < 10 THEN "0" \o ToString(n) ELSE ToString(n)

\* fmt_time(seconds) of a number of seconds (None is handled by its callers here)
FmtTime(seconds) ==
    IF seconds < 0 THEN "live"
    ELSE LET s == seconds % 60
             m == (seconds \div 60) % 60
             h == (seconds \div 60) \div 60
         IN  IF h # 0 THEN ToString(h) \o ":" \o TwoDigits(m) \o ":" \o TwoDigits(s)
             ELSE ToString(m) \o ":" \o TwoDigits(s)

\* estimated_position() or 0, as _progress_bar takes it: None becomes 0
EstimatedPositionOrZero(p) ==
    IF ~p.started \/ ~p.current \/ p.duration = 0 THEN 0 ELSE p.elapsed

\* _progress_bar(): None (bar = FALSE) without a current track or a duration; else the
\* ratio min(max(pos / duration, 0), 1) as num / den, the filled cells int(ratio * width)
\* and the text after the cells
ProgressBar(p) ==
    IF ~p.current \/ p.duration = 0
    THEN [bar |-> FALSE, num |-> 0, den |-> 0, filled |-> 0, text |-> ""]
    ELSE LET pos == EstimatedPositionOrZero(p)
             num == Min(Max(pos, 0), p.duration)
         IN  [bar |-> TRUE, num |-> num, den |-> p.duration,
              filled |-> (num * BAR_WIDTH) \div p.duration,
              text |-> FmtTime(pos) \o "/" \o FmtTime(p.duration)]

\* _panel_embed rendering the now-playing block
RenderProgress ==
    /\ progress = NotRendered
    /\ progress' = ProgressBar(progressOf)
    /\ UNCHANGED <<progressOf, mainVars, registryVars, resolverVars>>

----------------------------------------------------------------------------
(* Specifications: the player under the commands and events each one names *)

\* the playback loop with a connection that stays up and no stop request
RunningLoop(t) ==
    \/ LoopStart(t)
    \/ LoopPanelDone(t)
    \/ LoopQueueWait(t)
    \/ LoopQueueTimeout(t)
    \/ LoopQueueWake(t)
    \/ LoopPlay(t)
    \/ LoopStartPanel(t)
    \/ LoopTrackEnd(t)
    \/ LoopDrain(t)

\* the same loop, and what a stop request makes it do
PlaybackLoop(t) ==
    \/ RunningLoop(t)
    \/ LoopExit(t)
    \/ LoopDequeueEmpty(t)

\* the steps of the loop that disconnect an abandoned player, or find it disconnected
AloneLoop(t) ==
    \/ LoopAlone(t)
    \/ LoopSafeDisconnect(t)
    \/ LoopEndPanel(t)
    \/ LoopDiscard(t)

\* the idle countdown task while no time passes
IdleUntimed(i) ==
    \/ IdleRun(i)
    \/ IdleEnd(i)

\* enqueue calls, overlapping, with every resolver result
NextEnqueue ==
    \/ \E r \in ResolverResults(MaxBatch) : SlashPlay(r, MaxCalls, EnqMaxSeq, EnqMaxSeq)
    \/ \E i \in 1..MaxCalls : EnqueueFailed(i)
    \/ \E i \in 1..MaxCalls : Enqueue(i)
    \/ \E t \in LoopSlots : RunningLoop(t)
    \/ \E i \in IdleSlots : IdleUntimed(i)
    \/ TrackFinished
    \/ AfterPlay

SpecEnqueue == Init /\ [][NextEnqueue]_vars

\* history navigation over more tracks than the history holds
NextHistory ==
    \/ SlashPlay(OneTrack, 1, HistMaxSeq, HistRoom)
    \/ \E i \in 1..MaxCalls : Enqueue(i)
    \/ \E t \in LoopSlots : RunningLoop(t)
    \/ \E i \in IdleSlots : IdleUntimed(i)
    \/ TrackFinished
    \/ AfterPlay
    \/ PlayPrevious
    \/ PlayNextFromHistory

SpecHistory == Init /\ [][NextHistory]_vars

\* the loop task under enqueue, stop and skip
NextLoop ==
    \/ SlashPlay(OneTrack, 1, MaxSeq, MaxSeq)
    \/ \E i \in 1..MaxCalls : Enqueue(i)
    \/ \E t \in LoopSlots : PlaybackLoop(t)
    \/ \E i \in IdleSlots : IdleUntimed(i)
    \/ TrackFinished
    \/ AfterPlay
    \/ Skip
    \/ Stop

SpecLoop == Init /\ [][NextLoop]_vars

\* playback under every repeat mode, with members leaving the channel
NextRepeat ==
    \/ SlashPlay(OneTrack, 1, MaxSeq, MaxSeq)
    \/ \E i \in 1..MaxCalls : Enqueue(i)
    \/ \E t \in LoopSlots : RunningLoop(t)
    \/ \E t \in LoopSlots : AloneLoop(t)
    \/ \E i \in IdleSlots : IdleUntimed(i)
    \/ TrackFinished
    \/ AfterPlay
    \/ HumansLeave
    \/ \E mode \in RepeatModes : SetRepeat(mode)

SpecRepeat == Init /\ [][NextRepeat]_vars

\* a resolver that raises
NoTrack == [fail |-> TRUE, usable |-> <<>>]

\* members leave and join the voice channel during playback
NextAlone ==
    \/ SlashPlay(OneTrack, 1, MaxSeq, MaxSeq)
    \/ \E i \in 1..MaxCalls : Enqueue(i)
    \/ \E t \in LoopSlots : PlaybackLoop(t)
    \/ \E t \in LoopSlots : AloneLoop(t)
    \/ \E i \in IdleSlots : IdleUntimed(i)
    \/ TrackFinished
    \/ AfterPlay
    \/ Skip
    \/ Stop
    \/ Toggle
    \/ HumansLeave
    \/ HumansJoin

SpecAlone == Init /\ [][NextAlone]_vars

\* the idle policy: time passes, commands arrive, members leave and join
NextIdle ==
    \/ \E r \in {OneTrack, NoTrack} : SlashPlay(r, 1, IdleMaxSeq, MaxQueue)
    \/ \E i \in 1..MaxCalls : EnqueueFailed(i)
    \/ \E i \in 1..MaxCalls : Enqueue(i)
    \/ \E t \in LoopSlots : LoopStep(t)
    \/ \E i \in IdleSlots : IdleStep(i)
    \/ Tick
    \/ TrackFinished
    \/ AfterPlay
    \/ Stop
    \/ HumansLeave
    \/ HumansJoin

SpecIdle == Init /\ [][NextIdle]_vars


\* /play with a resolver that either finds one track or raises, the loop playing
NextResolverFails ==
    \/ \E r \in {OneTrack, NoTrack} : SlashPlay(r, MaxCalls, EnqMaxSeq, EnqMaxSeq)
    \/ \E i \in 1..MaxCalls : EnqueueFailed(i)
    \/ \E i \in 1..MaxCalls : Enqueue(i)
    \/ \E t \in LoopSlots : RunningLoop(t)
    \/ \E i \in IdleSlots : IdleUntimed(i)
    \/ TrackFinished
    \/ AfterPlay

SpecResolverFails == Init /\ [][NextResolverFails]_vars


\* previous / next navigation over a history of up to NavMaxSeq tracks, the loop playing
NextNavigate ==
    \/ SlashPlay(OneTrack, 1, NavMaxSeq, 1)
    \/ \E i \in 1..MaxCalls : Enqueue(i)
    \/ \E t \in LoopSlots : RunningLoop(t)
    \/ \E i \in IdleSlots : IdleUntimed(i)
    \/ TrackFinished
    \/ AfterPlay
    \/ PlayPreviousWithin(NavQueue)
    \/ PlayNextFromHistoryWithin(NavQueue)

SpecNavigate == Init /\ [][NextNavigate]_vars

\* the repeat button, the repeat picker and /repeat, the loop playing
NextRepeatMode ==
    \/ SlashPlay(OneTrack, 1, MaxSeq, MaxSeq)
    \/ \E i \in 1..MaxCalls : Enqueue(i)
    \/ \E t \in LoopSlots : RunningLoop(t)
    \/ \E i \in IdleSlots : IdleUntimed(i)
    \/ TrackFinished
    \/ AfterPlay
    \/ RepeatCycle
    \/ \E mode \in RepeatModes : SetRepeat(mode)
    \/ \E mode \in RepeatArgs : SlashRepeat(mode)

SpecRepeatMode == Init /\ [][NextRepeatMode]_vars

\* the five buttons of the panel over a playing loop
NextControls ==
    \/ SlashPlay(OneTrack, 1, MaxSeq, 1)
    \/ \E i \in 1..MaxCalls : Enqueue(i)
    \/ \E t \in LoopSlots : PlaybackLoop(t)
    \/ \E i \in IdleSlots : IdleUntimed(i)
    \/ TrackFinished
    \/ AfterPlay
    \/ PlayPrevious
    \/ Stop
    \/ Toggle
    \/ Skip
    \/ RepeatCycle

SpecControls == Init /\ [][NextControls]_vars

\* batches enqueued by overlapping calls and played with repeat off, with skips but
\* without navigation, stop or disconnect
NextFifo ==
    \/ \E r \in ResolverResults(MaxBatch) : SlashPlay(r, MaxCalls, FifoMaxSeq, MaxQueue)
    \/ \E i \in 1..MaxCalls : EnqueueFailed(i)
    \/ \E i \in 1..MaxCalls : Enqueue(i)
    \/ \E t \in LoopSlots : RunningLoop(t)
    \/ \E i \in IdleSlots : IdleUntimed(i)
    \/ TrackFinished
    \/ AfterPlay
    \/ Skip

SpecFifo == Init /\ [][NextFifo]_vars

\* the panel under /panel sethere and concurrent post_or_update_panel calls only
NextPanelPost ==
    \/ \E c \in PanelCalls, ch \in Channels : PanelSetHere(c, ch)
    \/ \E c \in PanelCalls : PostStart(c)
    \/ \E c \in PanelCalls : PostStep(c)

SpecPanelPost == Init /\ [][NextPanelPost]_vars

\* the panel under all its callers
NextPanel ==
    \/ \E c \in PanelCalls, ch \in Channels : PanelSetHere(c, ch)
    \/ \E c \in PanelCalls : PostStart(c)
    \/ \E c \in PanelCalls : PostStep(c)
    \/ \E c \in PanelCalls : BumpStart(c)
    \/ \E c \in PanelCalls : BumpStep(c)

SpecPanel == Init /\ [][NextPanel]_vars

\* post_or_update_panel calls whose edit and send requests may fail
NextPanelFaults ==
    \/ \E c \in PanelCalls, ch \in Channels : PanelSetHere(c, ch)
    \/ \E c \in PanelCalls : PostStart(c)
    \/ \E c \in PanelCalls : PostStep(c)
    \/ \E c \in PanelCalls : PostFailStep(c)

SpecPanelFaults == Init /\ [][NextPanelFaults]_vars

\* the event loop resumes every task that can go on and runs every scheduled callback,
\* a playing track comes to its end, and a call of enqueue that has its tracks finishes
LoopFairness ==
    /\ \A t \in LoopSlots : WF_vars(PlaybackLoop(t))
    /\ \A i \in IdleSlots : WF_vars(IdleUntimed(i))
    /\ \A i \in 1..MaxCalls : WF_vars(Enqueue(i))
    /\ WF_vars(TrackFinished)
    /\ WF_vars(AfterPlay)

SpecLoopFair == Init /\ [][NextLoop]_vars /\ LoopFairness

\* the playback loop with the stop, skip and pause/resume controls
NextSignal ==
    \/ NextLoop
    \/ Toggle

\* the event loop runs every callback handed to call_soon_threadsafe and resumes every
\* task whose await is over
SignalFairness ==
    /\ WF_vars(AfterPlay)
    /\ \A t \in LoopSlots : WF_vars(LoopTrackEnd(t))
    /\ \A i \in IdleSlots : WF_vars(IdleUntimed(i))

SpecSignal == Init /\ [][NextSignal]_vars /\ SignalFairness

\* the playback loop with its controls and the UI refresher task
NextRefresher ==
    \/ NextSignal
    \/ \E t \in LoopSlots : AloneLoop(t)
    \/ HumansLeave
    \/ UiUpdater

SpecRefresher == Init /\ [][NextRefresher]_vars

\* one panel channel with members writing in it, the panel posted there, and non-forced
\* bumps by the UI refresher and by on_message while time passes
NextSoftBump ==
    \/ \E c \in PanelCalls : PanelSetHere(c, 1)
    \/ \E c \in PanelCalls : PostStep(c)
    \/ UserMessage
    \/ BumpTick
    \/ \E c \in PanelCalls : SoftBumpStart(c)
    \/ \E c \in PanelCalls : SoftBumpStep(c)

SpecSoftBump == Init /\ [][NextSoftBump]_vars

\* handlers of any guild looking their player up
NextRegistry ==
    \/ \E g \in Guilds : GetPlayer(g)
    \/ \E g \in Guilds : OnMessageLookup(g)

SpecRegistry == Init /\ [][NextRegistry]_vars

\* the resolver applied to any query of the bounded set
InitQueries ==
    /\ InitPlayer
    /\ InitRegistry
    /\ query \in Queries
    /\ resolving = NotResolving
    /\ resolved = NotResolved
    /\ InitProgress

NextResolver ==
    \/ Resolve
    \/ ResolveSpotifyEntry
    \/ ResolveYtEntry

SpecResolver == InitQueries /\ [][NextResolver]_vars

\* the progress bar rendered for any track and any reading of the clock
InitRendering ==
    /\ InitPlayer
    /\ InitRegistry
    /\ InitResolver
    /\ progressOf \in ProgressInputs
    /\ progress = NotRendered

NextProgress == RenderProgress

SpecProgress == InitRendering /\ [][NextProgress]_vars

----------------------------------------------------------------------------
(* Properties *)

\* the tracks of a resolver result that have a playable stream
UsableCount(r) == IF r.fail THEN 0 ELSE Cardinality({j \in 1..Len(r.usable) : r.usable[j]})

\* every track the player holds carries a number the counter has reached
SeqsWithin(q, cur, h, n) ==
    /\ \A j \in 1..Len(q) : q[j] \in 1..n
    /\ \A j \in 1..Len(h) : h[j] \in 1..n
    /\ cur \in 0..n

\* C1: when an enqueue call returns, the queue has grown at its tail by exactly the
\* tracks of the resolver result that have a stream, numbered upwards from the counter
\* (so above every number given before, and pairwise distinct), and the counter has
\* advanced by as many; no other step gives out a number.
C1_EnqueueNumbersTracks ==
    [][ /\ Len(calls') < Len(calls) =>
              \E i \in 1..Len(calls) :
                 /\ calls' = RemoveAt(calls, i)
                 /\ LET k == UsableCount(calls[i])
                    IN  /\ seq_counter' = seq_counter + k
                        /\ Len(queue') = Len(queue) + k
                        /\ SubSeq(queue', 1, Len(queue)) = queue
                        /\ \A j \in 1..k : queue'[Len(queue) + j] = seq_counter + j
        /\ Len(calls') >= Len(calls) => seq_counter' = seq_counter
        /\ SeqsWithin(queue', current', history', seq_counter')
      ]_vars

\* a second admission has been appended while another enqueue call is still in flight
C1_Witness ==
    /\ seq_counter = 2
    /\ queue # <<>> /\ queue[Len(queue)] = 2
    /\ calls # <<>>

\* C2: the history holds at most five entries, the cursor is -1 or a position of the
\* history, and it is -1 exactly when the history is empty.
C2_HistoryBounded ==
    /\ Len(history) <= 5
    /\ history_index \in -1..(Len(history) - 1)
    /\ (history_index = -1) <=> (history = <<>>)

\* the oldest entry has been evicted and the cursor then moved back into the history
C2_Witness ==
    /\ Len(history) = 5
    /\ history[1] = 2
    /\ history_index = 2

\* C3: at most one playback loop task is active.
C3_OneLoop == Cardinality({t \in LoopSlots : LoopAlive(t)}) <= 1

\* a loop that played a track has ended and ensure_loop has created the next task
C3_Witness ==
    /\ loop_task # 0
    /\ loopPc[loop_task] = "start"
    /\ history # <<>>

\* the loop task t takes the post-track step of a track that ended with no stop request
RepeatStep(t) ==
    /\ loopPc[t] \in {"wait_next", "end_panel"}
    /\ loopPc'[t] \in {"next_panel", "drain"}

\* C4: in mode "one" the track that completed is put back at the front of the queue.
C4_RepeatOneReinserts ==
    [][ \A t \in LoopSlots :
           (RepeatStep(t) /\ loopPc[t] = "wait_next" /\ repeat_mode = "one" /\ current # 0)
              => (queue' # <<>> /\ Head(queue') = current)
      ]_vars

\* C5: in mode "all" the post-track step of a track that ended with no stop request
\* appends the whole history, in order, when the queue is empty, and adds nothing
\* when the queue is not empty.
C5_RepeatAllRefills ==
    [][ \A t \in LoopSlots :
           (RepeatStep(t) /\ repeat_mode = "all")
              => queue' = IF queue = <<>> /\ history # <<>> THEN history ELSE queue
      ]_vars

\* the queue has just been refilled with a history of two tracks
C5_Witness ==
    /\ repeat_mode = "all"
    /\ Len(history) = 2
    /\ queue = history
    /\ \E t \in LoopSlots : loopPc[t] = "next_panel"

\* C6: a loop iteration that starts with the player connected and no human in the
\* channel goes into the disconnect, which clears the queue and current, and then
\* back to the top of the loop: it reaches neither the queue check nor the dequeue.
C6_AloneBeforeQueue ==
    [][ \A t \in LoopSlots :
           /\ (loopPc[t] = "top" /\ ~stopped /\ voice = "conn" /\ ~humans /\ loopPc'[t] # "top")
                 => (loopPc'[t] = "alone_disc" /\ voice' # "conn" /\ queue' = queue)
           /\ (loopPc[t] = "alone_disc" /\ loopPc'[t] # "alone_disc")
                 => (loopPc'[t] = "alone_panel" /\ voice' = "none" /\ queue' = <<>> /\ current' = 0)
           /\ (loopPc[t] = "alone_panel" /\ loopPc'[t] # "alone_panel")
                 => (loopPc'[t] \in {"top", "crashed"} /\ queue' = queue)
      ]_vars

\* the loop, after a track was played, has disconnected an abandoned player and cleared it
C6_Witness ==
    /\ \E t \in LoopSlots : loopPc[t] = "alone_panel"
    /\ voice = "none" /\ queue = <<>> /\ current = 0
    /\ history # <<>>

\* C7 as stated: whenever the player is connected with no human, it is disconnecting:
\* no loop is parked waiting for the track to complete, for the queue, or in the hold.
C7_AloneNeverWaits ==
    (voice = "conn" /\ ~humans)
       => \A t \in LoopSlots : loopPc[t] \notin {"wait_next", "queue_wait", "drain"}

\* C7: the two places that look for humans, the top of a loop iteration and the
\* track-end hook, call the disconnect in the same step and start no idle countdown.
C7_AloneChecksDisconnect ==
    [][ \A t \in LoopSlots :
           /\ (loopPc[t] = "top" /\ ~stopped /\ voice = "conn" /\ ~humans /\ loopPc'[t] # "top")
                 => (voice' = "dead" /\ idlePc' = idlePc /\ idle_task' = idle_task)
           /\ (loopPc[t] = "wait_next" /\ voice = "conn" /\ ~humans /\ loopPc'[t] # "wait_next")
                 => /\ loopPc'[t] = "end_disc"
                    /\ voice' = "dead"
                    /\ idle_task' = 0
                    /\ \A i \in IdleSlots : idlePc'[i] = "new" => idlePc[i] = "new"
      ]_vars

\* a track ended in front of no one and the track-end hook is disconnecting
C7_Witness ==
    /\ \E t \in LoopSlots : loopPc[t] = "end_disc"
    /\ voice = "dead"
    /\ queue # <<>>

\* C8: a player that is connected, not playing, not paused and has an empty queue,
\* with no enqueue call or completion callback in flight, is watched: a playback loop
\* is alive or an idle countdown is under way. (With neither, no step of the player is
\* left to take, and it stays connected however long the idle state lasts.)
C8_IdleIsWatched ==
    (voice = "conn" /\ play = "idle" /\ queue = <<>> /\ calls = <<>> /\ afterPending = 0)
       => \/ \E t \in LoopSlots : LoopAlive(t)
          \/ \E i \in IdleSlots : idlePc[i] \in {"new", "sleep", "disc"}

\* C9, for the enqueue calls that admit a track: when such a call returns while an idle
\* countdown is pending, no idle countdown is pending any more and the idle start
\* timestamp is cleared.
C9_EnqueueCancelsCountdown ==
    [][ (seq_counter' > seq_counter /\ \E i \in IdleSlots : idlePc[i] \in {"new", "sleep"})
           => /\ \A i \in IdleSlots : idlePc'[i] \notin {"new", "sleep"}
              /\ idle_started_mono' = NoStamp
      ]_vars

\* an idle-policy disconnect begins: by the idle countdown task, or by the loop
IdleDisconnectStep ==
    \/ \E i \in IdleSlots : idlePc[i] = "sleep" /\ idlePc'[i] = "disc"
    \/ \E t \in LoopSlots : loopPc[t] = "top" /\ loopPc'[t] = "idle_disc"

\* C10, for the events the player observes (a start of playback, the queue becoming
\* non-empty): an idle-policy disconnect begins no less than 300 seconds after the
\* most recent of them.
C10_NoEarlyIdleDisconnect ==
    [][ IdleDisconnectStep => sinceActivity >= IDLE_SECONDS ]_vars

\* a disconnect trigger completes its state reset: _safe_disconnect (called by the
\* loop or by the idle countdown) or the loop's own idle-timeout branch resumes
\* after voice.disconnect and runs its assignments
DisconnectResetStep ==
    \/ \E t \in LoopSlots : /\ loopPc[t] \in {"alone_disc", "end_disc", "idle_disc"}
                            /\ loopPc'[t] # loopPc[t]
    \/ \E i \in IdleSlots : idlePc[i] = "disc" /\ idlePc'[i] = "panel"

\* C11: when either disconnect trigger has run its reset, on each path that implements
\* it and whatever enqueue or connect did while it awaited the disconnect, the player
\* holds no voice connection, current is none and the queue is empty.
C11_DisconnectResets ==
    [][ DisconnectResetStep => (voice' = "none" /\ current' = 0 /\ queue' = <<>>) ]_vars

\* the step in which the last panel call in progress returns
LastPanelCallEnds ==
    /\ \E c \in PanelCalls : panelPc[c] # "free"
    /\ \A c \in PanelCalls : panelPc'[c] = "free"

\* C12: when the last of any number of overlapping post_or_update_panel calls returns
\* (every fetch, edit and send answered by the channel as it is), exactly one message
\* of the guild's panel channel shows the panel.
C12_OnePanelAfterUpdates ==
    [][ LastPanelCallEnds => Cardinality(PanelsIn(panel_channel_id')) = 1 ]_vars

\* the positions at which a panel call has a send, edit or delete of a panel message,
\* or the write of panel_message_id, in progress
PanelMutating == {"pu_edit", "pu_send", "pu_sent", "pu_clean", "b_delete", "b_send", "b_sent", "b_clean"}

\* C13: every panel call that has a mutation of the panel in progress (send, edit,
\* delete, write of panel_message_id) holds the guild's panel lock, so no two calls
\* are mutating the panel at the same time.
C13_PanelMutationsLocked ==
    /\ \A c \in PanelCalls : panelPc[c] \in PanelMutating => panel_lock = c
    /\ Cardinality({c \in PanelCalls : panelPc[c] \in PanelMutating}) <= 1

\* C14: a playback loop task, once started, never returns: after a stop request it
\* goes back to the head of the loop and keeps serving the queue.
C14_LoopNeverReturns ==
    \A t \in LoopSlots : loopPc[t] # "done"

\* the step in which an enqueue call whose resolver raised fails
FailedEnqueueStep ==
    \E i \in 1..Len(calls) : calls[i].fail /\ calls' = RemoveAt(calls, i)

\* C15: an enqueue call whose resolver raises leaves the player as it was: queue,
\* sequence counter, queue event, loop task and every running loop, and all the rest
\* of the player's state.
C15_FailedEnqueueChangesNothing ==
    [][ FailedEnqueueStep =>
          /\ queue' = queue
          /\ seq_counter' = seq_counter
          /\ queue_event' = queue_event
          /\ loop_task' = loop_task
          /\ loopPc' = loopPc
          /\ UNCHANGED <<current, history, history_index, repeat_mode, navigating_history,
                         stopped, voiceVars, next_event, idleVars>>
      ]_vars

\* a first /play whose resolver raised has returned: connected, nothing admitted, no loop
C15_Witness ==
    /\ voice = "conn"
    /\ calls = <<>>
    /\ seq_counter = 0 /\ queue = <<>> /\ ~queue_event /\ loop_task = 0

\* the positions at which the loop awaits a panel update (post_or_update_panel,
\* _bump_panel_if_needed, or the panel update at the end of _safe_disconnect)
LoopPanelAwaits == {"alone_panel", "idle_panel", "stopped_panel", "next_panel", "final_panel",
                    "end_panel", "drain", "start_panel"}

\* C16: no loop task ends with an exception at a panel update or at the start of a
\* track: a failed start leaves it waiting on a completion gate that is already set.
C16_FailuresKeepLoopAlive ==
    [][ \A t \in LoopSlots :
          /\ loopPc[t] \in LoopPanelAwaits => loopPc'[t] # "crashed"
          /\ (AtDequeue(t) /\ queue # <<>> /\ voice = "conn" /\ loopPc'[t] # loopPc[t] /\ play' # "playing")
                => (loopPc'[t] = "wait_next" /\ next_event')
      ]_vars

\* C17: play_previous with the cursor at the first entry, or with no history, leaves
\* history and cursor alone; with a history and a current track it puts the current
\* track at the head of the queue and skips, otherwise it changes nothing.
C17_PreviousAtStartRestarts ==
    [][ (PlayPreviousWithin(NavQueue) /\ (history = <<>> \/ history_index <= 0)) =>
          /\ history' = history
          /\ history_index' = history_index
          /\ IF history # <<>> /\ current # 0
             THEN /\ queue' = <<current>> \o queue
                  /\ voice # "none" => play' = "idle"
             ELSE /\ queue' = queue
                  /\ UNCHANGED voiceVars
      ]_vars

\* the playing track has been restarted from the first history entry: it is at the
\* head of the queue, ahead of a track that was queued, and the audio was stopped
C17_Witness ==
    /\ history_index = 0 /\ Len(history) >= 1
    /\ current # 0 /\ current = history[1]
    /\ Len(queue) = 2 /\ queue[1] = current /\ queue[2] # current
    /\ play = "idle" /\ afterPending > 0

\* a play_previous step with the cursor beyond the first entry
BackStep == PlayPreviousWithin(NavQueue) /\ history # <<>> /\ history_index > 0

\* C18 as stated: going back moves the cursor down by one, keeps the history, and
\* leaves the target at the head of the queue directly followed by the current track,
\* ahead of what was queued.
C18_BackKeepsCurrentNext ==
    [][ BackStep =>
          /\ history_index' = history_index - 1
          /\ history' = history
          /\ queue'[1] = history[history_index]
          /\ current # 0 => queue'[2] = current
          /\ \E k \in 1..2 : SubSeq(queue', k + 1, Len(queue')) = queue
      ]_vars

\* C18: going back moves the cursor down by one, keeps the history and puts the
\* target at the head of the queue; the current track is put directly behind it only
\* when no entry of the queue has its seq, otherwise the queue is only extended by the
\* target and the current track stays where it is.
C18_BackInsertsTarget ==
    [][ BackStep =>
          /\ history_index' = history_index - 1
          /\ history' = history
          /\ queue' = IF current # 0 /\ \A j \in 1..Len(queue) : queue[j] # current
                      THEN <<history[history_index], current>> \o queue
                      ELSE <<history[history_index]>> \o queue
      ]_vars

\* previous was pressed with a track playing and another one queued: target, current
\* track, then the queued track
C18_Witness ==
    /\ navigating_history
    /\ current # 0
    /\ Len(queue) = 3
    /\ queue[1] = history[history_index + 1]
    /\ queue[2] = current
    /\ queue[3] \notin {queue[1], current}
    /\ play = "idle"

\* C19: play_next_from_history with the cursor before the last entry moves the cursor
\* up by one, puts that entry at the head of the queue and skips; with the cursor at
\* the last entry or an empty history it changes nothing and does not skip.
C19_ForwardOnlyBehindLiveEdge ==
    [][ PlayNextFromHistoryWithin(NavQueue) =>
          /\ history' = history
          /\ IF history # <<>> /\ history_index # -1 /\ history_index < Len(history) - 1
             THEN /\ history_index' = history_index + 1
                  /\ queue' = <<history[history_index + 2]>> \o queue
                  /\ voice # "none" => play' = "idle"
             ELSE /\ queue' = queue
                  /\ history_index' = history_index
                  /\ UNCHANGED voiceVars
      ]_vars

\* after going back, forward was pressed with tracks queued: the cursor is on the
\* entry now at the head of the queue, the entry before it is next
C19_Witness ==
    /\ navigating_history
    /\ history_index >= 1
    /\ Len(queue) >= 2
    /\ queue[1] = history[history_index + 1]
    /\ queue[2] = history[history_index]
    /\ play = "idle"

\* C20: the repeat mode is always off, one or all; the repeat button takes off to one,
\* one to all and all to off, so three presses in a row give the mode back; no other
\* step than the button, the picker and /repeat changes the mode, and /repeat changes
\* it only to one of the three.
C20_RepeatModeCycles ==
    [][ /\ repeat_mode \in {"off", "one", "all"}
        /\ repeat_mode' \in {"off", "one", "all"}
        /\ RepeatCycle =>
             /\ repeat_mode = "off" => repeat_mode' = "one"
             /\ repeat_mode = "one" => repeat_mode' = "all"
             /\ repeat_mode = "all" => repeat_mode' = "off"
             /\ CycleMode(CycleMode(repeat_mode')) = repeat_mode
      ]_vars

\* the mode has been moved off its initial value while a track plays
C20_Witness ==
    /\ repeat_mode = "all"
    /\ current # 0
    /\ play = "playing"

\* C21: the registry is get-or-create: a registered guild keeps its player for ever,
\* a call for a registered guild returns that player and constructs nothing, a call
\* for an unregistered guild constructs exactly one player and registers it, and what
\* a call returns is what the registry then holds for the guild.
C21_RegistryGetOrCreate ==
    [][ /\ \A g \in Guilds : players[g] # 0 => players'[g] = players[g]
        /\ returned'.guild # 0 => returned'.player = players'[returned'.guild]
        /\ playerCount' - playerCount =
              Cardinality({g \in Guilds : players[g] = 0 /\ players'[g] # 0})
        /\ \A g, h \in Guilds : (players'[g] # 0 /\ players'[g] = players'[h]) => g = h
      ]_vars

\* two guilds have their players and the first guild asked for has just been served again
C21_Witness ==
    /\ playerCount = 2
    /\ returned.guild # 0 /\ returned.player = 1
    /\ \E g \in Guilds : players[g] = 2

\* C22: create_tracks_from_query never returns an empty list: whatever the class of the
\* query, a resolution that yields no track raises
C22_NoEmptySuccess ==
    (resolved # NotResolved /\ ~resolved.fail) => resolved.tracks > 0

\* every entry of the catalog resolves: none is dropped and no lookup raises
EveryEntryResolves == query.creds /\ query.skipped = 0 /\ query.failAt = 0

\* C23: a Spotify album or playlist with more entries than SPOTIFY_MAX, all of which
\* resolve, yields exactly SPOTIFY_MAX tracks and no error
C23_CatalogCapAdmitsCap ==
    ( /\ resolved # NotResolved
      /\ query.class \in {"sp_album", "sp_playlist"}
      /\ query.entries > SPOTIFY_MAX
      /\ EveryEntryResolves )
    => resolved = [fail |-> FALSE, tracks |-> SPOTIFY_MAX]

C23_Witness ==
    /\ query.class = "sp_album"
    /\ query.entries = 120
    /\ EveryEntryResolves
    /\ resolved = [fail |-> FALSE, tracks |-> 100]

\* the elapsed time since the track started, clamped into [0, duration]
ClampedElapsed(p) == Min(Max(p.elapsed, 0), p.duration)

\* C24: a track without duration gets no bar; for a started track with a duration the
\* bar reports the elapsed time clamped into [0, duration] in its ratio and in its
\* "elapsed/duration" text, "0:50/3:20" with ratio 50/200 for 50 seconds of 200
C24_ProgressClamped ==
    progress # NotRendered =>
        /\ (progressOf.current /\ progressOf.duration = 0) => ~progress.bar
        /\ (progressOf.current /\ progressOf.duration > 0 /\ progressOf.started) =>
              /\ progress.bar
              /\ progress.num = ClampedElapsed(progressOf)
              /\ progress.den = progressOf.duration
              /\ progress.text = FmtTime(ClampedElapsed(progressOf)) \o "/"
                                   \o FmtTime(progressOf.duration)
        /\ ( /\ progressOf.current /\ progressOf.started
             /\ progressOf.duration = 200 /\ progressOf.elapsed = 50 ) =>
              /\ progress.num * 4 = progress.den
              /\ progress.text = "0:50/3:20"

\* the state of the player a panel button acts on
ControlState ==
    [queue |-> queue, current |-> current, history |-> history,
     history_index |-> history_index, navigating_history |-> navigating_history,
     repeat_mode |-> repeat_mode, stopped |-> stopped, voice |-> voice, play |-> play]

\* what one press of each button makes of that state
StopPressed(s) ==
    [s EXCEPT !.stopped = TRUE, !.queue = <<>>,
              !.play = IF s.voice # "none" THEN "idle" ELSE s.play]

SkipPressed(s) == [s EXCEPT !.play = IF s.voice # "none" THEN "idle" ELSE s.play]

TogglePressed(s) ==
    [s EXCEPT !.play = IF s.voice # "none" /\ s.play = "playing" THEN "paused"
                       ELSE IF s.voice # "none" /\ s.play = "paused" THEN "playing"
                       ELSE s.play]

RepeatPressed(s) == [s EXCEPT !.repeat_mode = CycleMode(s.repeat_mode)]

PreviousPressed(s) ==
    IF s.history = <<>> THEN s
    ELSE IF s.history_index <= 0
    THEN IF s.current # 0
         THEN [s EXCEPT !.queue = QueueAfterRestart(s.queue, s.current),
                        !.play = IF s.voice # "none" THEN "idle" ELSE s.play]
         ELSE s
    ELSE [s EXCEPT !.queue = QueueAfterBack(s.queue, s.current, s.history[s.history_index]),
                   !.history_index = s.history_index - 1,
                   !.navigating_history = TRUE,
                   !.play = IF s.voice # "none" THEN "idle" ELSE s.play]

\* every button does to the player what is written above
ButtonsAsWritten ==
    /\ Stop => ControlState' = StopPressed(ControlState)
    /\ Skip => ControlState' = SkipPressed(ControlState)
    /\ Toggle => ControlState' = TogglePressed(ControlState)
    /\ RepeatCycle => ControlState' = RepeatPressed(ControlState)
    /\ PlayPrevious => ControlState' = PreviousPressed(ControlState)

\* C25 as stated: after any of the five buttons, pressing the same button again at once
\* leaves the player as the first press left it
C25_ControlsIdempotent ==
    [][ /\ ButtonsAsWritten
        /\ Stop => StopPressed(ControlState') = ControlState'
        /\ Skip => SkipPressed(ControlState') = ControlState'
        /\ Toggle => TogglePressed(ControlState') = ControlState'
        /\ RepeatCycle => RepeatPressed(ControlState') = ControlState'
        /\ PlayPrevious => PreviousPressed(ControlState') = ControlState'
      ]_vars

\* C25 amended: stop and skip are idempotent; a second press of the pause button undoes
\* the first whenever the first did something, and a second press of the repeat button
\* always moves on to the next mode
C25_StopSkipIdempotent ==
    [][ /\ ButtonsAsWritten
        /\ Stop => StopPressed(ControlState') = ControlState'
        /\ Skip => SkipPressed(ControlState') = ControlState'
        /\ (Toggle /\ play' # play) => TogglePressed(ControlState') = ControlState
        /\ RepeatCycle => RepeatPressed(ControlState') # ControlState'
      ]_vars

\* stop was pressed while a track was playing with another one queued behind it
C25_Witness ==
    /\ stopped
    /\ current # 0
    /\ play = "idle"
    /\ afterPending > 0
    /\ seq_counter >= 2
    /\ queue = <<>>

\* C26: with repeat off and no navigation, stop or disconnect, the k-th track the loop
\* takes up is the k-th admitted one (seq k): tracks start in ascending seq, none twice
\* (the history, not yet trimmed here, lists the tracks taken up before)
C26_StartsInAdmissionOrder ==
    [][ (\E t \in LoopSlots : LoopPlay(t)) =>
          /\ current' = Len(history) + 1
          /\ \A j \in 1..Len(history) : history[j] < current'
          /\ \A j \in 1..Len(queue') : queue'[j] > current'
      ]_vars

C26_Witness ==
    /\ current = 3
    /\ play = "playing"
    /\ history = <<1, 2, 3>>
    /\ queue = <<4>>

\* C27: a track ended without stop and nothing is queued after the repeat step: while the
\* loop is in the panel update and the hold that follow, current is still the track that
\* ended, and only the step that ends the hold clears it
C27_CurrentKeptDuringHold ==
    [][ \A t \in LoopSlots :
          /\ (LoopTrackEnd(t) /\ loopPc'[t] = "drain") => (current' = current /\ current' # 0)
          /\ (LoopDrain(t) /\ loopPc'[t] = "final_panel") => (current # 0 /\ current' = 0)
      ]_vars

\* the loop is between voice.play of a track and its next return to the top of the loop
LoopHoldsTrack(t) ==
    loopPc[t] \in {"start_panel", "wait_next", "end_disc", "end_panel", "drain",
                   "next_panel", "stopped_panel", "final_panel", "top"}

\* C28: current is a track only while some loop task is playing it or is on its way from
\* the track's end back to the top of the loop; it is None when no loop task is left and
\* when the loop waits for the queue
C28_CurrentOnlyWhileLoopHoldsIt ==
    /\ current # 0 => \E t \in LoopSlots : LoopHoldsTrack(t)
    /\ (\A t \in LoopSlots : LoopDone(loopPc[t])) => current = 0
    /\ (\E t \in LoopSlots : loopPc[t] \in {"queue_wait", "woken"}) => current = 0

\* C29: when the cleanup that follows a successful send or edit has run, the channel
\* holds no message with the embed of _panel_embed other than the one just sent or edited
\* (the channels of the model never hold more than 30 messages)
C29_CleanupRemovesOtherPanels ==
    [][ \A c \in PanelCalls :
          (PostCleanup(c) \/ BumpCleanup(c)) =>
              \A m \in panelMsgs' :
                  (m.ch = panelCh[c] /\ m.embed = PanelEmbed) => m.id = panelMsg[c]
      ]_vars

\* the edit of the recorded panel message fails: not found, refused, or the request broke
EditFails(c) ==
    \/ PostEdit(c) /\ ~MsgExists(panelCh[c], panelMsg[c])
    \/ PostEditRefused(c)
    \/ PostEditBreaks(c)

\* the send of the new panel message fails
SendFails(c) == PostSendRefused(c) \/ PostSendBreaks(c)

\* C30: a failed edit forgets the recorded id and the call goes on to send a new message;
\* a send that succeeded records the id of the new message; a failed send leaves no id
\* recorded and the call returns without raising
C30_FailedEditFallsBackToSend ==
    [][ \A c \in PanelCalls :
          /\ EditFails(c) => (panel_message_id' = 0 /\ panelPc'[c] = "pu_send")
          /\ PostSent(c) => ( /\ panel_message_id' = lastMsgId
                              /\ MsgExists(panelCh[c], panel_message_id') )
          /\ SendFails(c) => (panel_message_id' = 0 /\ panelPc'[c] = "free")
      ]_vars

\* C31: a non-forced bump goes on to delete and re-post only when the panel is not the
\* last message of its channel and the interval has passed since the last recorded bump;
\* and a non-forced bump never re-posts the panel less than the interval after another
\* non-forced bump did
C31_SoftBumpsIntervalApart ==
    [][ \A c \in PanelCalls :
          /\ SoftBumpStart(c) => ( /\ lastMsgId # panel_message_id
                                   /\ last_panel_bump >= PANEL_BUMP_SECONDS )
          /\ SoftBumpSend(c) => (sinceRepost = NoStamp \/ sinceRepost >= PANEL_BUMP_SECONDS)
      ]_vars

\* C32: whenever a loop task is about to pop the head of the queue, the queue is not empty
C32_NeverPopsEmpty ==
    \A t \in LoopSlots : AtDequeue(t) => queue # <<>>

\* the loop task t waits for the completion of a track whose player has been stopped
LoopWaitsStopped(t) == loopPc[t] = "wait_next" /\ play = "idle"

\* the loop task t has left the wait and taken its post-track step
LoopAtPostTrack(t) == loopPc[t] \in {"stopped_panel", "next_panel", "drain", "end_disc"}

\* C33: once the player of the track the loop waits for has been stopped (by skip or stop,
\* playing or paused), the completion signal fires and the loop reaches its post-track
\* step; and at no time are two loop tasks alive
C33_StopEndsTheWait ==
    /\ \A t \in LoopSlots : LoopWaitsStopped(t) ~> LoopAtPostTrack(t)
    /\ [](Cardinality({t \in LoopSlots : LoopAlive(t)}) <= 1)

\* stop() was called during the wait and the loop has taken the stop branch
C33_Witness ==
    \E t \in LoopSlots :
        /\ loopPc[t] = "stopped_panel"
        /\ stopped
        /\ play = "idle"
        /\ next_event
        /\ afterPending = 0
        /\ history # <<>>

\* C34: the loop leaves the wait for a track only when that track's own attempt is over:
\* the transport is no longer playing or paused when the loop goes past the wait, and no
\* completion callback is still to come that would end the wait of a later track
C34_WaitEndsWithItsTrack ==
    [][ \A t \in LoopSlots : LoopTrackEnd(t) => (play = "idle" /\ afterPending = 0) ]_vars

\* the loop task t is suspended in the bounded wait on the queue event
LoopWaitsOnQueue(t) == loopPc[t] = "queue_wait"

\* C35: going past the wait for a track the loop cancels that track's refresher (a task
\* counts as alive from its creation until it has finished or cancel() was called on it);
\* at most one refresher is alive; none is while the loop waits on the empty queue or
\* when no loop task is running
C35_RefresherEndsWithTrack ==
    [][ /\ \A t \in LoopSlots : LoopTrackEnd(t) => (ui_task' = "none" /\ uiAlive' = 0)
        /\ uiAlive' <= 1
        /\ \A t \in LoopSlots : LoopWaitsOnQueue(t)' => uiAlive' = 0
        /\ (\A t \in LoopSlots : ~LoopAlive(t)') => uiAlive' = 0
      ]_vars

\* a refresher was started for the playing track, and a track was played before it
C35_Witness ==
    /\ ui_task = "run"
    /\ uiAlive = 1
    /\ play = "playing"
    /\ Len(history) = 2

\* the last n entries of the sequence s (all of it when it has no more)
LastEntries(s, n) == IF Len(s) <= n THEN s ELSE SubSeq(s, Len(s) - n + 1, Len(s))

C37_ForwardHistoryTruncated ==
    [][ \A t \in LoopSlots :
          ( /\ LoopPlay(t)
            /\ ~navigating_history
            /\ history_index < Len(history) - 1
            /\ \A i \in 1..Len(history) : history[i] # Head(queue) )
          => history' = LastEntries(Append(SubSeq(history, 1, history_index + 1), Head(queue)), 5)
      ]_vars

\* C38: a track in the queue eventually leaves it, started by the loop or removed by
\* stop or by a disconnect: no track stays in the queue forever
C38_AdmittedEventuallyStarted ==
    \A s \in 1..MaxSeq : Queued(queue, s) ~> ~Queued(queue, s)

\* the idle countdown task i has been created, has not finished and was not cancelled
IdlePending(i) == idlePc[i] \in {"new", "sleep", "disc", "panel"}

\* C39: at most one idle countdown task is pending, and _idle_task refers to it
C39_IdleTaskIsThePendingOne ==
    /\ Cardinality({i \in IdleSlots : IdlePending(i)}) <= 1
    /\ \A i \in IdleSlots : IdlePending(i) => idle_task = i

\* play_previous has gone back during the track that now ends, a track whose audio had
\* started (its refresher was created): it has put the history entry before the old
\* cursor at the head of the queue and moved the cursor onto it
WentBack ==
    /\ ui_task = "run"
    /\ navigating_history
    /\ history_index >= 0
    /\ history_index < Len(history) - 1
    /\ queue # <<>>
    /\ Head(queue) = history[history_index + 1]

\* C40: when the loop takes its post-track step after play_previous went back during the
\* track, the entry play_previous chose is still the head of the queue, which the loop
\* pops and starts next, and the cursor is still on it, whatever the repeat mode
C40_PreviousStartsTarget ==
    [][ \A t \in LoopSlots :
          (LoopTrackEnd(t) /\ WentBack)
          => ( /\ queue' # <<>>
               /\ Head(queue') = history[history_index + 1]
               /\ history_index' = history_index )
      ]_vars

=============================================================================
